---- MODULE Spec2Model ----
(***************************************************************************)
(* State-machine model of the twilight-indexer block ingestion loop        *)
(* (src/src/pubsub_chain.rs), the process bootstrap (src/src/main.rs) and  *)
(* the envelope decoder (src/src/transaction_types.rs, quis_quis_tx.rs),   *)
(* the persistence gateway with its tables (src/src/db.rs, schema.rs) and  *)
(* the program disassembler of the query API (src/src/api.rs).             *)
(***************************************************************************)
EXTENDS Integers, Sequences, FiniteSets, TLC

(* ------------------------------ bounds --------------------------------- *)
\* highest block height the remote chain reaches in the model
MaxHeight == 2
\* number of process restarts explored
MaxRuns == 1
\* largest number of transactions in one fetched block
MaxTxs == 2
\* number of persistence-gateway calls explored from an empty database
MaxCalls == 2
\* width in bits at which the 64-bit integers of the program are modelled
IntBits == 16
\* largest number of elements in a program handed to the disassembler
MaxProgLen == 6

(* --------------------------- program constants -------------------------- *)
\* pubsub_chain.rs:72  `if attempt == 3`
MaxAttempts == 3

VARIABLES
    \* ---- configuration (main.rs) ----
    enable_api,          \* ENABLE_API
    enable_indexer,      \* ENABLE_INDEXER
    \* ---- process state ----
    api,                 \* "off" | "serving" | "stopped" | "down"
    pc,                  \* position of the thread running subscribe_block
    \* ---- locals of subscribe_block ----
    latest_height,
    block_height,
    attempt,
    txs,                 \* block_raw.block.data.txs of the block being processed
    tx_i,                \* index of the next transaction of txs to decode
    \* ---- persisted / external state ----
    local_block_height,  \* the persisted cursor
    chain_head,          \* height of the remote chain
    \* ---- history (observation only, never read by the program) ----
    runs,                \* restarts so far
    last_op,             \* last step taken by the ingestion thread
    last_fetch,          \* outcome of the last get_block_data_from_height
    fetch_h,             \* height of the last fetch
    prev_attempt,        \* attempt counter before the last fetch
    streak,              \* consecutive non-benign failures ending at the last fetch, all at fetch_h
    streak_base,         \* attempt counter when the current streak began
    completed,           \* heights fetched successfully with every transaction dispatched,
                         \* found benign-empty, or force-skipped
    cursor0,             \* cursor value when the model starts
    inflight_at_write,   \* height that was in flight at the last in-loop cursor write
    dispatched,          \* transactions of the current block handed to the decoder, in order
    head_failed,         \* the last remote-head query of this run failed
    head_fail_at_start,  \* ... and it was the startup query
    did_fetch,           \* a block was fetched in this run
    did_write,           \* the cursor was written in this run
    idle_ops,            \* steps taken since the catch-up loop was last left
    served_after_fatal,  \* the API served a request after the indexer hit the fatal head failure
    \* ---- database (db.rs, schema.rs) ----
    db,                  \* the twelve tables, each a set of rows
    gas_triple_unique,   \* gas_used_nyks has a unique index on (t_address, denom, block)
    db_up,               \* PgConnection::establish succeeds (the database is reachable)
    \* ---- remote chain content ----
    chain_txs,           \* transactions of the block at the height the fact-level model ingests
    \* ---- history of the database (observation only) ----
    calls,               \* persistence-gateway calls made directly: function, arguments, result
    trace,               \* per-message record of the last transaction handed to the decoder
    db_before_block,     \* database when the first transaction of the current block was dispatched
    \* ---- api.rs: decode_program_opcodes ----
    disasm,              \* the call in progress: program, bytes, i, opcodes and what it read
    \* ---- read API (api.rs) ----
    response             \* the response to the last request the API server handled

config == <<enable_api, enable_indexer>>
locals == <<latest_height, block_height, attempt, txs, tx_i>>
fetch_hist == <<last_fetch, fetch_h, prev_attempt, streak, streak_base>>
run_hist == <<head_failed, head_fail_at_start, did_fetch, did_write>>
ghosts == <<runs, last_op, fetch_hist, completed, cursor0, inflight_at_write,
            dispatched, run_hist, idle_ops, served_after_fatal>>
loopvars == <<config, api, pc, locals, local_block_height, chain_head, ghosts>>
dbvars == <<db, gas_triple_unique, db_up, chain_txs, calls, trace, db_before_block, disasm,
            response>>
vars == <<loopvars, dbvars>>

(* ----------------------- envelope decoder outcome ----------------------- *)
\* A type URL is modelled as <<number of leading '/', rest>>.
Url(n, name) == <<n, name>>

\* variant: only the exact identifier matches
ty_ExactOnly(t, want) == t[1] = 0 /\ t[2] = want

\* transaction_types.rs: fn ty(t, want)
ty(t, want) == \/ (t[1] = 0 /\ t[2] = want)
               \/ (t[1] >= 1 /\ t[1] - 1 = 0 /\ t[2] = want)

\* str::parse::<i64>() on the amount strings that occur in the model
ParseI64(s) ==
    CASE s = "5"  -> [ok |-> TRUE,  v |-> 5]
      [] s = "7"  -> [ok |-> TRUE,  v |-> 7]
      [] s = "-3" -> [ok |-> TRUE,  v |-> -3]
      [] s = "9223372036854775808" -> [ok |-> FALSE, v |-> 0]
      [] s = "abc" -> [ok |-> FALSE, v |-> 0]
      [] s = ""   -> [ok |-> FALSE, v |-> 0]
      [] OTHER    -> [ok |-> FALSE, v |-> 0]

\* message types that decode_standard_any only decodes (no facts, no panics)
PlainTypes == {
    "cosmos.bank.v1beta1.MsgMultiSend",
    "cosmos.bank.v1beta1.SendAuthorization",
    "cosmos.staking.v1beta1.MsgDelegate",
    "cosmos.staking.v1beta1.MsgUndelegate",
    "cosmos.staking.v1beta1.MsgBeginRedelegate",
    "cosmos.distribution.v1beta1.MsgWithdrawDelegatorReward",
    "cosmos.distribution.v1beta1.MsgWithdrawValidatorCommission",
    "cosmos.distribution.v1beta1.MsgSetWithdrawAddress",
    "cosmos.distribution.v1beta1.MsgFundCommunityPool",
    "cosmos.gov.v1beta1.MsgSubmitProposal",
    "cosmos.gov.v1beta1.MsgDeposit",
    "cosmos.gov.v1beta1.MsgVote",
    "cosmos.gov.v1beta1.MsgVoteWeighted",
    "twilightproject.nyks.bridge.MsgRegisterBtcDepositAddress",
    "twilightproject.nyks.bridge.MsgRegisterReserveAddress",
    "twilightproject.nyks.bridge.MsgBootstrapFragment",
    "twilightproject.nyks.bridge.MsgWithdrawTxSigned",
    "twilightproject.nyks.bridge.MsgWithdrawTxFinal",
    "twilightproject.nyks.bridge.MsgConfirmBtcWithdraw",
    "twilightproject.nyks.bridge.MsgProposeSweepAddress",
    "twilightproject.nyks.bridge.MsgUnsignedTxSweep",
    "twilightproject.nyks.bridge.MsgUnsignedTxRefund",
    "twilightproject.nyks.bridge.MsgSignRefund",
    "twilightproject.nyks.bridge.MsgSignSweep",
    "twilightproject.nyks.bridge.MsgBroadcastTxRefund",
    "twilightproject.nyks.bridge.MsgBroadcastTxSweep",
    "twilightproject.nyks.bridge.MsgSweepProposal" }

\* The inner confidential transaction carried by MsgTransferTx.tx_byte_code:
\*   bytes_ok  hex::decode and bincode::deserialize succeed
\*   variant   "Transfer" | "Script" | "Message"
\*   inputs    sequence of [in_type, owner]    owner = "none": as_owner_address() is None
\*   outputs   sequence of [out_type, account] account = "err": to_quisquis_account() fails
\*   json      the text serde_json::to_string_pretty gives for the transaction
NoInner == [bytes_ok |-> FALSE, variant |-> "Message", inputs |-> <<>>, outputs |-> <<>>,
            json |-> ""]

\* quis_quis_tx.rs: decode_qq_transaction -- "Ok" or "Err"; Err when the bytes do not
\* decode or when the archive insert fails (lines 67-70), which with the primary key
\* as conflict target happens only when the database is unreachable
decode_qq_transaction(inner) == IF inner.bytes_ok /\ db_up THEN "Ok" ELSE "Err"

\* Outcome of the DecodedQQTx::Transfer arm of decode_standard_any
TransferArm(inner) ==
    IF inner.inputs = <<>> \/ inner.outputs = <<>> THEN "Ok"
    ELSE IF inner.inputs[1].owner = "none" THEN "Ok"
    ELSE IF inner.outputs[1].account = "err" THEN "Panic"
    ELSE IF ~db_up THEN "Err"
    ELSE "Ok"

\* Outcome of the DecodedQQTx::Script arm of decode_standard_any
ScriptArm(inner) == "Ok"

\* Outcome of the MsgSend arm: the amounts are parsed in order with expect()
RECURSIVE BankSendCoins(_)
BankSendCoins(coins) ==
    IF coins = <<>> THEN "Ok"
    ELSE IF ~ParseI64(Head(coins).amount).ok THEN "Panic"
    ELSE BankSendCoins(Tail(coins))

\* transaction_types.rs: decode_standard_any -- "Ok" | "Err" | "Panic"
decode_standard_any(m) ==
    IF ty(m.type_url, "cosmos.bank.v1beta1.MsgSend") THEN
        IF ~m.wire_ok THEN "Err" ELSE BankSendCoins(m.coins)
    ELSE IF \E w \in PlainTypes : ty(m.type_url, w) THEN
        IF m.wire_ok THEN "Ok" ELSE "Err"
    ELSE IF ty(m.type_url, "twilightproject.nyks.bridge.MsgConfirmBtcDeposit") THEN
        IF m.wire_ok THEN "Ok" ELSE "Err"
    ELSE IF ty(m.type_url, "twilightproject.nyks.bridge.MsgWithdrawBtcRequest") THEN
        IF m.wire_ok THEN "Ok" ELSE "Err"
    ELSE IF ty(m.type_url, "twilightproject.nyks.zkos.MsgTransferTx") THEN
        IF ~m.wire_ok THEN "Err"
        ELSE IF decode_qq_transaction(m.inner) = "Err" THEN "Err"
        ELSE IF m.inner.variant = "Transfer" THEN TransferArm(m.inner)
        ELSE IF m.inner.variant = "Script" THEN ScriptArm(m.inner)
        ELSE "Ok"
    ELSE IF ty(m.type_url, "twilightproject.nyks.zkos.MsgMintBurnTradingBtc") THEN
        IF m.wire_ok THEN "Ok" ELSE "Err"
    ELSE "Ok"

\* the `for any in &body.messages` loop of decode_tx_base64_standard
RECURSIVE DecodeMessages(_)
DecodeMessages(msgs) ==
    IF msgs = <<>> THEN "Ok"
    ELSE LET r == decode_standard_any(Head(msgs))
         IN IF r = "Ok" THEN DecodeMessages(Tail(msgs)) ELSE r

\* transaction_types.rs: decode_tx_base64_standard -- "Ok" | "Err" | "Panic"
\* tx.envelope names the first stage that fails: "base64", "txraw", "body", "auth", or "ok".
decode_tx_base64_standard(tx) ==
    IF tx.envelope # "ok" THEN "Err" ELSE DecodeMessages(tx.msgs)


(* --------------------------- sample chain data -------------------------- *)
Coin(a, d) == [amount |-> a, denom |-> d]
\* a message (protobuf Any): type_url, value (the payload bytes), wire_ok (the bytes
\* decode as the message type_url names) and the fields of the decoded message
Msg(url, w, c, i) ==
    [type_url |-> url, wire_ok |-> w, coins |-> c, inner |-> i, value |-> <<>>,
     from_address |-> "", to_address |-> "", twilight_address |-> "",
     delegator_address |-> "", voter |-> "", amount |-> 0, mint_or_burn |-> FALSE,
     qq_account |-> ""]
\* a transaction: envelope names the first envelope stage that fails, fee is
\* auth_info.fee.amount (empty when there is no fee)
Tx(e, m) == [envelope |-> e, msgs |-> m, fee |-> <<>>]
\* the record r with the fields of f replaced
With(r, f) == [k \in DOMAIN r |-> IF k \in DOMAIN f THEN f[k] ELSE r[k]]

\* bank send of 5 nyks: decodes
TxBankSend ==
    Tx("ok", << Msg(Url(1, "cosmos.bank.v1beta1.MsgSend"), TRUE, << Coin("5", "nyks") >>, NoInner) >>)
\* bank send whose second coin amount is not an i64
TxBankSendBadAmount ==
    Tx("ok", << Msg(Url(1, "cosmos.bank.v1beta1.MsgSend"), TRUE,
                    << Coin("5", "nyks"), Coin("abc", "nyks") >>, NoInner) >>)
\* transaction whose base64 text does not decode
TxBadBase64 == Tx("base64", <<>>)
\* a vote with malformed bytes followed by a bank send: the first message returns Err
TxBadVoteThenSend ==
    Tx("ok", << Msg(Url(1, "cosmos.gov.v1beta1.MsgVote"), FALSE, <<>>, NoInner),
                Msg(Url(0, "cosmos.bank.v1beta1.MsgSend"), TRUE, << Coin("7", "nyks") >>, NoInner) >>)
\* confidential Transfer whose first output cannot be converted to an account
TxTransferBadOutput ==
    Tx("ok", << Msg(Url(1, "twilightproject.nyks.zkos.MsgTransferTx"), TRUE, <<>>,
                    [bytes_ok |-> TRUE, variant |-> "Transfer",
                     inputs  |-> << [in_type |-> "Coin", owner |-> "q1"] >>,
                     outputs |-> << [out_type |-> "Memo", account |-> "err"] >>,
                     json |-> "{\"b\":2}"]) >>)

TxSet == {TxBankSend, TxBankSendBadAmount, TxBadBase64, TxBadVoteThenSend, TxTransferBadOutput}

Last(s) == s[Len(s)]

RECURSIVE SeqsUpTo(_, _)
SeqsUpTo(S, n) ==
    IF n = 0 THEN {<<>>}
    ELSE LET P == SeqsUpTo(S, n - 1)
         IN P \cup {Append(q, x) : q \in {r \in P : Len(r) = n - 1}, x \in S}

\* contents a fetched block can have
Blocks == SeqsUpTo(TxSet, MaxTxs)

Heights == 0..MaxHeight

(* ------------------- remote chain and local height file ------------------ *)
\* BlockRaw::get_latest_block_height(): Ok(head of the chain) or Err
get_latest_block_height ==
    {[ok |-> TRUE, height |-> chain_head], [ok |-> FALSE, height |-> 0]}

\* BlockRaw::get_local_block_height(): the persisted height
get_local_block_height == local_block_height

\* BlockRaw::get_block_data_from_height(h): Ok(block), Err("3") or another Err
get_block_data_from_height(h) ==
    {[ok |-> TRUE, err |-> "", txs |-> b] : b \in Blocks}
      \cup {[ok |-> FALSE, err |-> e, txs |-> <<>>] : e \in {"3", "timeout"}}

(* --------------------------- subscribe_block ---------------------------- *)
\* variant: the forced advance leaves the attempt counter at its final value
OnFetchError_NoReset(arg, bh, att) ==
    IF arg = "3" THEN [block_height |-> bh + 1, attempt |-> att]
    ELSE IF att + 1 = MaxAttempts THEN [block_height |-> bh + 1, attempt |-> att + 1]
    ELSE [block_height |-> bh, attempt |-> att + 1]

\* variant: the benign code also clears the attempt counter
OnFetchError_BenignResets(arg, bh, att) ==
    IF arg = "3" THEN [block_height |-> bh + 1, attempt |-> 0]
    ELSE IF att + 1 = MaxAttempts THEN [block_height |-> bh + 1, attempt |-> 0]
    ELSE [block_height |-> bh, attempt |-> att + 1]

\* variant: every failed fetch advances the height
OnFetchError_AdvanceAlways(arg, bh, att) ==
    IF arg = "3" THEN [block_height |-> bh + 1, attempt |-> att]
    ELSE IF att + 1 = MaxAttempts THEN [block_height |-> bh + 1, attempt |-> 0]
    ELSE [block_height |-> bh + 1, attempt |-> att + 1]

\* pubsub_chain.rs:61-78: the Err arm of the fetch match
OnFetchError(arg, bh, att) ==
    IF arg = "3" THEN [block_height |-> bh + 1, attempt |-> att]
    ELSE IF att + 1 = MaxAttempts THEN [block_height |-> bh + 1, attempt |-> 0]
    ELSE [block_height |-> bh, attempt |-> att + 1]

\* pubsub_chain.rs:54-60: the Ok arm; an empty transaction list completes at once
OnFetchOk(block, bh) ==
    IF block = <<>> THEN [pc |-> "write", block_height |-> bh + 1]
    ELSE [pc |-> "dispatch", block_height |-> bh]

\* variant: the head failure is logged ("Setting height to 0") and the loop goes on
OnLatestHeightErr_Continue == "continue"

\* pubsub_chain.rs:42-45 and 85-88: the Err arm of both head queries
OnLatestHeightErr == "fatal"

\* variant: persist, sleep, then re-query
IdleOrder_PersistSleepRequery == <<"write_idle", "sleep", "requery">>

\* pubsub_chain.rs:83-93: the steps between two catch-up rounds, in program order
IdleOrder == <<"requery", "write_idle", "sleep">>

IdleNext(p) ==
    LET i == CHOOSE k \in 1..Len(IdleOrder) : IdleOrder[k] = p
    IN IF i = Len(IdleOrder) THEN "while" ELSE IdleOrder[i + 1]

\* variant: the loop persists the height after the one it holds
HeightToWrite_Next(bh) == bh + 1

\* variant: the loop also fetches the height after the remote head
WhileCondition_OnePastHead(bh, latest) == bh <= latest + 1

\* pubsub_chain.rs:51: the condition of the catch-up loop
WhileCondition(bh, latest) == bh <= latest

\* variant: the loop persists the height it has just handled
HeightToWrite_LastHandled(bh) == IF bh > 0 THEN bh - 1 ELSE 0

\* pubsub_chain.rs:80: the value handed to write_local_block_height in the loop
HeightToWrite(bh) == bh


(* ------------------------- integers of the program ----------------------- *)
\* i64 and u64 at the modelled width
I64Max == 2^(IntBits - 1) - 1
I64Min == 0 - 2^(IntBits - 1)
U64Max == 2^IntBits - 1

\* `x as i64` for a u64 x: the two's-complement reinterpretation of the same bits
AsI64(x) == IF x > I64Max THEN x - 2^IntBits ELSE x

(* ------------------------------ the tables ------------------------------ *)
TableNames == {"transactions", "funds_moved", "dark_burned_sats", "dark_minted_sats",
               "lit_minted_sats", "lit_burned_sats", "addr_mappings", "gas_used_nyks",
               "qq_tx", "trading_tx", "order_open_tx", "order_close_tx"}

\* the database after the migrations have run: every table empty
EmptyDb == [t \in TableNames |-> {}]

\* schema.rs: the primary key each table! declares
PrimaryKey ==
    [transactions     |-> {"t_address", "block"},
     funds_moved      |-> {"t_address", "denom", "block"},
     dark_burned_sats |-> {"t_address"},
     dark_minted_sats |-> {"t_address"},
     lit_minted_sats  |-> {"t_address"},
     lit_burned_sats  |-> {"t_address"},
     addr_mappings    |-> {"t_address", "q_address"},
     gas_used_nyks    |-> {"t_address", "block"},
     qq_tx            |-> {"tx_hash", "block"},
     trading_tx       |-> {"to_address", "from_address", "block"},
     order_open_tx    |-> {"to_address", "from_address", "block"},
     order_close_tx   |-> {"to_address", "from_address", "block"}]

\* db.rs:296: the conflict target insert_gas_used names
GasConflictTarget == {"t_address", "denom", "block"}

\* The unique constraints of a table: its primary key and, for gas_used_nyks, the
\* index on the conflict target if the migrations create one.
UniqueKeys(t) ==
    {PrimaryKey[t]} \cup
      (IF t = "gas_used_nyks" /\ gas_triple_unique THEN {GasConflictTarget} ELSE {})

Key(row, cols) == [c \in cols |-> row[c]]

\* PostgreSQL  INSERT INTO t VALUES (row) ON CONFLICT (target) DO NOTHING        (mode "nothing")
\*             ... ON CONFLICT (target) DO UPDATE SET col = t.col + row.col      (mode "add")
\*             ... ON CONFLICT (target) DO UPDATE SET col = row.col              (mode "set")
\*             INSERT INTO t VALUES (row)                                        (mode "plain")
\* The statement fails, and stores nothing, when no unique constraint matches the
\* target, when the sum leaves the bigint range, or when the new row breaks another
\* unique constraint.  Every gateway function opens its own connection first
\* (`establish_connection()?`, db.rs:109-116) and returns Err when that fails.
InsertOnConflict(d, t, target, row, mode, col) ==
    LET hit == {r \in d[t] : Key(r, target) = Key(row, target)}
        clash == {r \in d[t] : \E u \in UniqueKeys(t) : Key(r, u) = Key(row, u)}
        fail == [db |-> d, res |-> "Err", conflict |-> clash # {}]
    IN IF ~db_up THEN [db |-> d, res |-> "Err", conflict |-> FALSE]
       ELSE IF mode = "plain"
       THEN IF clash # {} THEN fail
            ELSE [db |-> [d EXCEPT ![t] = @ \cup {row}], res |-> "Ok", conflict |-> FALSE]
       ELSE IF target \notin UniqueKeys(t) THEN fail
       ELSE IF hit # {}
       THEN IF mode = "nothing" THEN [db |-> d, res |-> "Ok", conflict |-> TRUE]
            ELSE LET old == CHOOSE r \in hit : TRUE
                     new == IF mode = "add" THEN old[col] + row[col] ELSE row[col]
                 IN IF new > I64Max \/ new < I64Min THEN fail
                    ELSE [db |-> [d EXCEPT ![t] = (@ \ {old}) \cup {[old EXCEPT ![col] = new]}],
                          res |-> "Ok", conflict |-> TRUE]
       ELSE IF clash # {} THEN fail
       ELSE [db |-> [d EXCEPT ![t] = @ \cup {row}], res |-> "Ok", conflict |-> FALSE]

(* ------------------------ the persistence gateway ----------------------- *)
\* variant: an address is counted once, in the first block that counts it
insert_transaction_count_OncePerAddress(d, twilight_address, height) ==
    IF \E r \in d["transactions"] : r.t_address = twilight_address
    THEN [db |-> d, res |-> "Ok", conflict |-> TRUE]
    ELSE InsertOnConflict(d, "transactions", {"t_address", "block"},
            [t_address |-> twilight_address, block |-> AsI64(height)], "nothing", "")

\* db.rs:118-135
insert_transaction_count(d, twilight_address, height) ==
    InsertOnConflict(d, "transactions", {"t_address", "block"},
        [t_address |-> twilight_address, block |-> AsI64(height)], "nothing", "")

\* variant: an existing row is overwritten with the new delta
insert_funds_moved_Overwrite(d, twilight_address, amount_delta, denom_str, height) ==
    InsertOnConflict(d, "funds_moved", {"t_address", "denom", "block"},
        [t_address |-> twilight_address, amount |-> amount_delta, denom |-> denom_str,
         block |-> AsI64(height)], "set", "amount")

\* variant: a conflicting upsert leaves the stored amount as it is
insert_funds_moved_KeepFirst(d, twilight_address, amount_delta, denom_str, height) ==
    InsertOnConflict(d, "funds_moved", {"t_address", "denom", "block"},
        [t_address |-> twilight_address, amount |-> amount_delta, denom |-> denom_str,
         block |-> AsI64(height)], "nothing", "")

\* db.rs:138-157
insert_funds_moved(d, twilight_address, amount_delta, denom_str, height) ==
    InsertOnConflict(d, "funds_moved", {"t_address", "denom", "block"},
        [t_address |-> twilight_address, amount |-> amount_delta, denom |-> denom_str,
         block |-> AsI64(height)], "add", "amount")

\* db.rs:159-177
insert_dark_burned_sats(d, twilight_address, quis_address, amount_delta, height) ==
    InsertOnConflict(d, "dark_burned_sats", {"t_address"},
        [t_address |-> twilight_address, q_address |-> quis_address,
         amount |-> amount_delta, block |-> AsI64(height)], "add", "amount")

\* variant: a mint never merges into the row of an earlier mint
insert_dark_minted_sats_NoMerge(d, twilight_address, quis_address, amount_delta, height) ==
    InsertOnConflict(d, "dark_minted_sats", {"t_address"},
        [t_address |-> twilight_address, q_address |-> quis_address,
         amount |-> amount_delta, block |-> AsI64(height)], "nothing", "")

\* db.rs:179-197
insert_dark_minted_sats(d, twilight_address, quis_address, amount_delta, height) ==
    InsertOnConflict(d, "dark_minted_sats", {"t_address"},
        [t_address |-> twilight_address, q_address |-> quis_address,
         amount |-> amount_delta, block |-> AsI64(height)], "add", "amount")

\* db.rs:200-217
insert_lit_minted_sats(d, twilight_address, amount_delta, height) ==
    InsertOnConflict(d, "lit_minted_sats", {"t_address"},
        [t_address |-> twilight_address, amount |-> amount_delta,
         block |-> AsI64(height)], "add", "amount")

\* db.rs:220-237
insert_lit_burned_sats(d, twilight_address, amount_delta, height) ==
    InsertOnConflict(d, "lit_burned_sats", {"t_address"},
        [t_address |-> twilight_address, amount |-> amount_delta,
         block |-> AsI64(height)], "add", "amount")

\* variant: a conflicting mapping takes the block of the new insert
insert_addr_mappings_UpdatesBlock(d, twilight_address, quis_address, height) ==
    InsertOnConflict(d, "addr_mappings", {"t_address", "q_address"},
        [t_address |-> twilight_address, q_address |-> quis_address,
         block |-> AsI64(height)], "set", "block")

\* variant: an address holds one mapping; an insert for an address that has a row
\* does nothing
insert_addr_mappings_OnePerAddress(d, twilight_address, quis_address, height) ==
    IF \E r \in d["addr_mappings"] : r.t_address = twilight_address
    THEN [db |-> d, res |-> "Ok", conflict |-> TRUE]
    ELSE InsertOnConflict(d, "addr_mappings", {"t_address", "q_address"},
            [t_address |-> twilight_address, q_address |-> quis_address,
             block |-> AsI64(height)], "nothing", "")

\* db.rs:239-256
insert_addr_mappings(d, twilight_address, quis_address, height) ==
    InsertOnConflict(d, "addr_mappings", {"t_address", "q_address"},
        [t_address |-> twilight_address, q_address |-> quis_address,
         block |-> AsI64(height)], "nothing", "")

\* db.rs:258-269: `.filter(q_address.eq(..)).first()` without an ORDER BY: any row
\* with that account may be the one returned; {"none"} when there is no row (Ok(None)),
\* {"err"} when the connection cannot be opened (Err)
get_taddress_for_qaddress(d, quis_address) ==
    LET found == {r.t_address : r \in {m \in d["addr_mappings"] : m.q_address = quis_address}}
    IN IF ~db_up THEN {"err"}
       ELSE IF found = {} THEN {"none"} ELSE found

\* db.rs:283-301
insert_gas_used(d, addr, gas, denom_str, height) ==
    InsertOnConflict(d, "gas_used_nyks", GasConflictTarget,
        [t_address |-> addr, gas_amount |-> gas, denom |-> denom_str, block |-> height],
        "add", "gas_amount")

\* db.rs:307-310: hex of the SHA-256 digest, on the texts that occur in the model
Sha256Hex(s) ==
    CASE s = "{\"a\":1}" -> "015abd7f5cc57a2dd94b7590f04ad8084273905ee33ec5cebeae62276a97f862"
      [] s = "{\"b\":2}" -> "0ab1a6d394cd30195f0642b67ae1180c375ffadf5dd7f39c390668b5fdb6da93"
      [] s = "{\"c\":3}" -> "caba9cb06ac77da7781b8bbd7e0700c58ea69bc7d8b12f0b6695a2af6ee6a6b3"
      [] s = "{\"d\":4}" -> "6c85e6eeb8afd62135daab1df50380e6b116293be22d4fdd91f1bcf11912df8e"
      [] OTHER -> "e3b0c44298fc1c149afbf4c8996fb92427ae41e4649b934ca495991b7852b855"

\* variant: the archive is keyed by the digest alone
insert_qq_tx_HashOnly(d, tx_str, height) ==
    IF \E r \in d["qq_tx"] : r.tx_hash = Sha256Hex(tx_str)
    THEN [db |-> d, res |-> "Ok", conflict |-> TRUE]
    ELSE InsertOnConflict(d, "qq_tx", {"tx_hash", "block"},
            [tx_hash |-> Sha256Hex(tx_str), tx |-> tx_str, block |-> AsI64(height)],
            "nothing", "")

\* db.rs:303-325
insert_qq_tx(d, tx_str, height) ==
    InsertOnConflict(d, "qq_tx", {"tx_hash", "block"},
        [tx_hash |-> Sha256Hex(tx_str), tx |-> tx_str, block |-> AsI64(height)],
        "nothing", "")

\* db.rs:327-343
insert_trading_tx(d, to_addr, from_addr, height) ==
    InsertOnConflict(d, "trading_tx", {"to_address", "from_address", "block"},
        [to_address |-> to_addr, from_address |-> from_addr, block |-> AsI64(height)],
        "nothing", "")

\* db.rs:345-361
insert_order_open_tx(d, to_addr, from_addr, height) ==
    InsertOnConflict(d, "order_open_tx", {"to_address", "from_address", "block"},
        [to_address |-> to_addr, from_address |-> from_addr, block |-> AsI64(height)],
        "nothing", "")

\* db.rs:363-379
insert_order_close_tx(d, to_addr, from_addr, height) ==
    InsertOnConflict(d, "order_close_tx", {"to_address", "from_address", "block"},
        [to_address |-> to_addr, from_address |-> from_addr, block |-> AsI64(height)],
        "nothing", "")


(* ------------------- envelope decoder: the facts it stores --------------- *)
\* hex::encode on a sequence of bytes: two lower-case digits per byte
HexDigits == <<"0", "1", "2", "3", "4", "5", "6", "7", "8", "9", "a", "b", "c", "d", "e", "f">>
RECURSIVE HexEncode(_)
HexEncode(bytes) ==
    IF bytes = <<>> THEN <<>>
    ELSE <<HexDigits[(Head(bytes) \div 16) + 1], HexDigits[(Head(bytes) % 16) + 1]>>
            \o HexEncode(Tail(bytes))

\* outcome of one message: database after it, result, handler that took it, value built
Out(d, r, hd, b) == [db |-> d, res |-> r, handler |-> hd, body |-> b]

\* transaction_types.rs:202-207: the coins of a bank send, in order
RECURSIVE SendCoins(_, _, _, _)
SendCoins(d, to, coins, h) ==
    IF coins = <<>> THEN [db |-> d, res |-> "Ok"]
    ELSE LET p == ParseI64(Head(coins).amount)
         IN IF ~p.ok THEN [db |-> d, res |-> "Panic"]
            ELSE SendCoins(insert_funds_moved(d, to, p.v, Head(coins).denom, h).db,
                           to, Tail(coins), h)

\* quis_quis_tx.rs:44-78 with its archive insert: [db, res]
ArchiveQqTx(d, inner, h) ==
    IF ~inner.bytes_ok THEN [db |-> d, res |-> "Err"]
    ELSE LET a == insert_qq_tx(d, inner.json, h)
         IN IF a.res = "Err" THEN [db |-> d, res |-> "Err"] ELSE [db |-> a.db, res |-> "Ok"]

\* transaction_types.rs:370 and 416: inputs[0] is a Coin and outputs[0] a Memo
CoinToMemo(inner) == inner.inputs[1].in_type = "Coin" /\ inner.outputs[1].out_type = "Memo"

\* variant: only the kind of the first output is looked at
MemoToCoin_OutputOnly(inner) == inner.outputs[1].out_type = "Coin"

\* transaction_types.rs:417
MemoToCoin(inner) == inner.inputs[1].in_type = "Memo" /\ inner.outputs[1].out_type = "Coin"

\* variant: the trading-tx row names the mapped address as its source
TransferFacts_FromAddress(d, inner, h) ==
    IF inner.inputs = <<>> \/ inner.outputs = <<>> THEN {[db |-> d, res |-> "Ok"]}
    ELSE IF inner.inputs[1].owner = "none" THEN {[db |-> d, res |-> "Ok"]}
    ELSE IF inner.outputs[1].account = "err" THEN {[db |-> d, res |-> "Panic"]}
    ELSE LET owner == inner.inputs[1].owner
             new_qq_account == inner.outputs[1].account
         IN { IF t_address = "err" THEN [db |-> d, res |-> "Err"]
              ELSE IF t_address = "none" THEN [db |-> d, res |-> "Ok"]
              ELSE LET d1 == insert_addr_mappings(d, t_address, new_qq_account, h).db
                       d2 == insert_transaction_count(d1, t_address, h).db
                       d3 == IF CoinToMemo(inner)
                             THEN insert_trading_tx(d2, new_qq_account, t_address, h).db
                             ELSE d2
                   IN [db |-> d3, res |-> "Ok"]
              : t_address \in get_taddress_for_qaddress(d, owner) }

\* transaction_types.rs:333-375: the Transfer arm; one outcome for every row the
\* mapping lookup may return
TransferFacts(d, inner, h) ==
    IF inner.inputs = <<>> \/ inner.outputs = <<>> THEN {[db |-> d, res |-> "Ok"]}
    ELSE IF inner.inputs[1].owner = "none" THEN {[db |-> d, res |-> "Ok"]}
    ELSE IF inner.outputs[1].account = "err" THEN {[db |-> d, res |-> "Panic"]}
    ELSE LET owner == inner.inputs[1].owner
             new_qq_account == inner.outputs[1].account
         IN { IF t_address = "err" THEN [db |-> d, res |-> "Err"]
              ELSE IF t_address = "none" THEN [db |-> d, res |-> "Ok"]
              ELSE LET d1 == insert_addr_mappings(d, t_address, new_qq_account, h).db
                       d2 == insert_transaction_count(d1, t_address, h).db
                       d3 == IF CoinToMemo(inner)
                             THEN insert_trading_tx(d2, new_qq_account, owner, h).db
                             ELSE d2
                   IN [db |-> d3, res |-> "Ok"]
              : t_address \in get_taddress_for_qaddress(d, owner) }

\* transaction_types.rs:376-442: the Script arm
ScriptFacts(d, inner, h) ==
    IF inner.inputs = <<>> \/ inner.outputs = <<>> THEN {[db |-> d, res |-> "Ok"]}
    ELSE IF inner.inputs[1].owner = "none" THEN {[db |-> d, res |-> "Ok"]}
    ELSE IF inner.outputs[1].account = "err" THEN {[db |-> d, res |-> "Ok"]}
    ELSE LET owner == inner.inputs[1].owner
             new_qq_account == inner.outputs[1].account
             d1 == IF CoinToMemo(inner)
                   THEN insert_order_open_tx(d, new_qq_account, owner, h).db ELSE d
             d2 == IF MemoToCoin(inner)
                   THEN insert_order_close_tx(d1, new_qq_account, owner, h).db ELSE d1
         IN {[db |-> d2, res |-> "Ok"]}

\* variant: the first upsert that fails ends the handler
MintBurnFacts_StopsAtFailure(d, m, h) ==
    LET a == IF m.mint_or_burn
             THEN insert_dark_minted_sats(d, m.twilight_address, m.qq_account,
                                          AsI64(m.amount), h)
             ELSE insert_dark_burned_sats(d, m.twilight_address, m.qq_account,
                                          AsI64(m.amount), h)
        b == IF m.mint_or_burn
             THEN insert_addr_mappings(a.db, m.twilight_address, m.qq_account, h)
             ELSE a
    IN IF a.res = "Err" THEN d
       ELSE IF b.res = "Err" THEN a.db
       ELSE insert_transaction_count(b.db, m.twilight_address, h).db

\* variant: a mint stores no address mapping
MintBurnFacts_NoMapping(d, m, h) ==
    LET d1 == IF m.mint_or_burn
              THEN insert_dark_minted_sats(d, m.twilight_address, m.qq_account,
                                           AsI64(m.amount), h).db
              ELSE insert_dark_burned_sats(d, m.twilight_address, m.qq_account,
                                           AsI64(m.amount), h).db
    IN insert_transaction_count(d1, m.twilight_address, h).db

\* transaction_types.rs:450-471: MsgMintBurnTradingBtc
MintBurnFacts(d, m, h) ==
    LET d1 == IF m.mint_or_burn
              THEN insert_addr_mappings(
                       insert_dark_minted_sats(d, m.twilight_address, m.qq_account,
                                               AsI64(m.amount), h).db,
                       m.twilight_address, m.qq_account, h).db
              ELSE insert_dark_burned_sats(d, m.twilight_address, m.qq_account,
                                           AsI64(m.amount), h).db
    IN insert_transaction_count(d1, m.twilight_address, h).db

\* the identifiers decode_standard_any compares the type URL against
FactTypes == {"cosmos.bank.v1beta1.MsgSend",
              "twilightproject.nyks.bridge.MsgConfirmBtcDeposit",
              "twilightproject.nyks.bridge.MsgWithdrawBtcRequest",
              "twilightproject.nyks.zkos.MsgTransferTx",
              "twilightproject.nyks.zkos.MsgMintBurnTradingBtc"}
KnownTypes == PlainTypes \cup FactTypes

\* the value of a typed variant (its fields are those of the message)
NoBody == [type_url |-> Url(0, ""), raw_value_hex |-> <<>>]

\* transaction_types.rs:190-478: decode_standard_any with the rows it stores; a set
\* because the Transfer arm depends on which row the mapping lookup returns
ExtractFacts(d, m, h) ==
    LET t == m.type_url
        err == {Out(d, "Err", "none", NoBody)}
    IN IF ty(t, "cosmos.bank.v1beta1.MsgSend") THEN
           IF ~m.wire_ok THEN err
           ELSE LET s == SendCoins(insert_transaction_count(d, m.from_address, h).db,
                                   m.to_address, m.coins, h)
                IN {Out(s.db, s.res, "cosmos.bank.v1beta1.MsgSend", NoBody)}
       ELSE IF \E w \in PlainTypes : ty(t, w) THEN
           IF ~m.wire_ok THEN err
           ELSE {Out(d, "Ok", CHOOSE w \in PlainTypes : ty(t, w), NoBody)}
       ELSE IF ty(t, "twilightproject.nyks.bridge.MsgConfirmBtcDeposit") THEN
           IF ~m.wire_ok THEN err
           ELSE {Out(insert_lit_minted_sats(d, m.twilight_address, AsI64(m.amount), h).db,
                     "Ok", "twilightproject.nyks.bridge.MsgConfirmBtcDeposit", NoBody)}
       ELSE IF ty(t, "twilightproject.nyks.bridge.MsgWithdrawBtcRequest") THEN
           IF ~m.wire_ok THEN err
           ELSE {Out(insert_lit_burned_sats(d, m.twilight_address, AsI64(m.amount), h).db,
                     "Ok", "twilightproject.nyks.bridge.MsgWithdrawBtcRequest", NoBody)}
       ELSE IF ty(t, "twilightproject.nyks.zkos.MsgTransferTx") THEN
           IF ~m.wire_ok THEN err
           ELSE LET a == ArchiveQqTx(d, m.inner, h)
                    arm == IF m.inner.variant = "Transfer" THEN TransferFacts(a.db, m.inner, h)
                           ELSE IF m.inner.variant = "Script" THEN ScriptFacts(a.db, m.inner, h)
                           ELSE {[db |-> a.db, res |-> "Ok"]}
                IN IF a.res = "Err" THEN err
                   ELSE {Out(o.db, o.res, "twilightproject.nyks.zkos.MsgTransferTx", NoBody)
                            : o \in arm}
       ELSE IF ty(t, "twilightproject.nyks.zkos.MsgMintBurnTradingBtc") THEN
           IF ~m.wire_ok THEN err
           ELSE {Out(MintBurnFacts(d, m, h), "Ok",
                     "twilightproject.nyks.zkos.MsgMintBurnTradingBtc", NoBody)}
       ELSE {Out(d, "Ok", "Unknown",
                 [type_url |-> t, raw_value_hex |-> HexEncode(m.value)])}

\* transaction_types.rs:166-169: the message loop, stopped by the first message that
\* does not return Ok; trace has one entry per message handed to decode_standard_any:
\* the message, how many messages follow it, the block height, whether the database
\* was reachable, and the database before and after it
RECURSIVE IngestMsgs(_, _, _)
IngestMsgs(d, msgs, h) ==
    IF msgs = <<>> THEN {[db |-> d, res |-> "Ok", trace |-> <<>>]}
    ELSE UNION {
           LET step == [msg |-> Head(msgs), rest |-> Len(msgs) - 1, height |-> h,
                        up |-> db_up, res |-> o.res,
                        handler |-> o.handler, body |-> o.body, before |-> d,
                        after |-> o.db]
           IN IF o.res = "Ok"
              THEN {[r EXCEPT !.trace = <<step>> \o @] : r \in IngestMsgs(o.db, Tail(msgs), h)}
              ELSE {[db |-> o.db, res |-> o.res, trace |-> <<step>>]}
           : o \in ExtractFacts(d, Head(msgs), h) }

\* transaction_types.rs:90-150: the signer named by a message, "none" if it names none
extract_signer_from_any(m) ==
    LET t == m.type_url
    IN IF ty(t, "cosmos.bank.v1beta1.MsgSend") /\ m.wire_ok THEN m.from_address
       ELSE IF (\E w \in {"cosmos.staking.v1beta1.MsgDelegate",
                          "cosmos.staking.v1beta1.MsgUndelegate",
                          "cosmos.staking.v1beta1.MsgBeginRedelegate",
                          "cosmos.distribution.v1beta1.MsgWithdrawDelegatorReward"} : ty(t, w))
               /\ m.wire_ok THEN m.delegator_address
       ELSE IF ty(t, "cosmos.gov.v1beta1.MsgVote") /\ m.wire_ok THEN m.voter
       ELSE IF (\E w \in {"twilightproject.nyks.bridge.MsgConfirmBtcDeposit",
                          "twilightproject.nyks.bridge.MsgWithdrawBtcRequest",
                          "twilightproject.nyks.zkos.MsgMintBurnTradingBtc"} : ty(t, w))
               /\ m.wire_ok THEN m.twilight_address
       ELSE "none"

\* transaction_types.rs:172-180: the gas upsert made after the message loop
GasFacts(d, tx, h) ==
    LET signer == IF tx.msgs = <<>> THEN "none" ELSE extract_signer_from_any(tx.msgs[1])
    IN IF tx.fee # <<>> /\ signer # "none" /\ ParseI64(tx.fee[1].amount).ok
       THEN insert_gas_used(d, signer, ParseI64(tx.fee[1].amount).v, tx.fee[1].denom,
                            AsI64(h)).db
       ELSE d

\* variant: AuthInfo is decoded after the message loop
IngestTx_AuthAfterMessages(d, tx, h) ==
    IF tx.envelope \notin {"ok", "auth"} THEN {[db |-> d, res |-> "Err", trace |-> <<>>]}
    ELSE {IF r.res = "Ok"
          THEN IF tx.envelope = "auth" THEN [r EXCEPT !.res = "Err"]
               ELSE [r EXCEPT !.db = GasFacts(r.db, tx, h)]
          ELSE r
             : r \in IngestMsgs(d, tx.msgs, h)}

\* variant: the gas upsert is made before the message loop
IngestTx_GasBeforeMessages(d, tx, h) ==
    IF tx.envelope # "ok" THEN {[db |-> d, res |-> "Err", trace |-> <<>>]}
    ELSE IngestMsgs(GasFacts(d, tx, h), tx.msgs, h)

\* transaction_types.rs:153-188: decode_tx_base64_standard with the rows it stores
IngestTx(d, tx, h) ==
    IF tx.envelope # "ok" THEN {[db |-> d, res |-> "Err", trace |-> <<>>]}
    ELSE {IF r.res = "Ok" THEN [r EXCEPT !.db = GasFacts(r.db, tx, h)] ELSE r
             : r \in IngestMsgs(d, tx.msgs, h)}


(* ------------------- api.rs: decode_program_opcodes --------------------- *)
\* A program is a JSON value: is_array tells whether it is an array, arr holds its
\* elements.  An element is a JSON number; a negative one stands for every element
\* `as_u64()` gives None for.
NoProgram == [is_array |-> FALSE, arr |-> <<>>]

\* api.rs:195: `v.as_u64().map(|n| n as u8)` on one element: <<>> when as_u64() is
\* None, else the low eight bits
AsU8(v) == IF v < 0 THEN <<>> ELSE <<v % 256>>

\* api.rs:194-197: the byte buffer of a program (filter_map keeps the order)
RECURSIVE ProgramBytes(_)
ProgramBytes(arr) ==
    IF arr = <<>> THEN <<>> ELSE AsU8(Head(arr)) \o ProgramBytes(Tail(arr))

\* opcodes followed by a 4-byte length and a blob of that length (api.rs:207, 217)
BlobOps == {0, 1}
\* opcodes followed by a 4-byte index or count (api.rs:228, 238, 267, 277, 292, 302)
ArgOps == {3, 4, 27, 28, 34, 35}

\* api.rs:206-313: the mnemonic of an opcode, "ext" for a byte outside the table
Mnemonic(opcode) ==
    CASE opcode = 0  -> "push"     [] opcode = 1  -> "program"  [] opcode = 2  -> "drop"
      [] opcode = 3  -> "dup"      [] opcode = 4  -> "roll"     [] opcode = 5  -> "scalar"
      [] opcode = 6  -> "commit"   [] opcode = 7  -> "alloc"    [] opcode = 10 -> "expr"
      [] opcode = 11 -> "neg"      [] opcode = 12 -> "add"      [] opcode = 13 -> "mul"
      [] opcode = 14 -> "eq"       [] opcode = 15 -> "range"    [] opcode = 16 -> "and"
      [] opcode = 17 -> "or"       [] opcode = 18 -> "not"      [] opcode = 19 -> "verify"
      [] opcode = 20 -> "unblind"  [] opcode = 21 -> "issue"    [] opcode = 22 -> "borrow"
      [] opcode = 23 -> "retire"   [] opcode = 25 -> "fee"      [] opcode = 26 -> "input"
      [] opcode = 27 -> "output"   [] opcode = 28 -> "contract" [] opcode = 29 -> "log"
      [] opcode = 30 -> "call"     [] opcode = 31 -> "signtx"   [] opcode = 32 -> "signid"
      [] opcode = 33 -> "signtag"  [] opcode = 34 -> "inputcoin"
      [] opcode = 35 -> "outputcoin"
      [] OTHER -> "ext"

\* an instruction string: format!("{name}:{arg}") when has_arg, the bare name otherwise;
\* for "ext" the argument is the opcode byte itself (format!("ext:{:#04x}", opcode))
Instr(name, has_arg, arg) == [name |-> name, has_arg |-> has_arg, arg |-> arg]

\* bytes[k] for a 0-based index k; an index outside the buffer yields 0 here and is
\* reported through the indices the call records as read
ByteAt(bytes, k) == IF k < Len(bytes) THEN bytes[k + 1] ELSE 0

\* u32::from_le_bytes([bytes[i], bytes[i + 1], bytes[i + 2], bytes[i + 3]])
LE32(bytes, i) ==
    ByteAt(bytes, i) + 256 * ByteAt(bytes, i + 1) + 65536 * ByteAt(bytes, i + 2)
        + 16777216 * ByteAt(bytes, i + 3)

\* variant: the argument is read when at least three bytes follow the opcode
HasArgument_OffByOne(bytes, i) == i + 3 <= Len(bytes)

\* api.rs:209, 219, 230, 240, 269, 279, 294, 304: `if i + 4 <= bytes.len()`
HasArgument(bytes, i) == i + 4 <= Len(bytes)

\* the call before its first loop test (api.rs:194-200); a program that is not an
\* array returns the empty list at once (line 196).  i is the cursor, reads the set of
\* indices the call has used on bytes, short the number of instructions emitted when
\* an opcode was first found without its complete 4-byte argument (0: never).
StartDisasm(program) ==
    [pc |-> IF program.is_array THEN "loop" ELSE "returned",
     program |-> program,
     bytes |-> IF program.is_array THEN ProgramBytes(program.arr) ELSE <<>>,
     i |-> 0, opcodes |-> <<>>, reads |-> {}, short |-> 0]

\* no call of decode_program_opcodes is in progress
NoDisasm == [pc |-> "idle", program |-> NoProgram, bytes |-> <<>>, i |-> 0,
             opcodes |-> <<>>, reads |-> {}, short |-> 0]

\* variant: the cursor stops after the length of a blob opcode, so the blob is
\* decoded as opcodes
LoopBody_InterpretsBlob(st) ==
    LET bytes == st.bytes
        opcode == ByteAt(bytes, st.i)
        i1 == st.i + 1
        takes == opcode \in BlobOps \cup ArgOps
        has == takes /\ HasArgument(bytes, i1)
        arg == LE32(bytes, i1)
        name == Mnemonic(opcode)
        i2 == IF ~has THEN i1 ELSE i1 + 4
        ins == IF name = "ext" THEN Instr("ext", TRUE, opcode)
               ELSE IF has THEN Instr(name, TRUE, arg)
               ELSE Instr(name, FALSE, 0)
    IN [st EXCEPT !.i = i2,
                  !.opcodes = Append(@, ins),
                  !.reads = @ \cup {st.i} \cup (IF has THEN i1 .. (i1 + 3) ELSE {}),
                  !.short = IF @ = 0 /\ takes /\ ~has THEN Len(st.opcodes) + 1 ELSE @]

\* api.rs:202-316: one iteration of `while i < bytes.len()`
LoopBody(st) ==
    LET bytes == st.bytes
        opcode == ByteAt(bytes, st.i)
        i1 == st.i + 1
        takes == opcode \in BlobOps \cup ArgOps
        has == takes /\ HasArgument(bytes, i1)
        arg == LE32(bytes, i1)
        name == Mnemonic(opcode)
        i2 == IF ~has THEN i1
              ELSE IF opcode \in BlobOps THEN i1 + 4 + arg
              ELSE i1 + 4
        ins == IF name = "ext" THEN Instr("ext", TRUE, opcode)
               ELSE IF has THEN Instr(name, TRUE, arg)
               ELSE Instr(name, FALSE, 0)
    IN [st EXCEPT !.i = i2,
                  !.opcodes = Append(@, ins),
                  !.reads = @ \cup {st.i} \cup (IF has THEN i1 .. (i1 + 3) ELSE {}),
                  !.short = IF @ = 0 /\ takes /\ ~has THEN Len(st.opcodes) + 1 ELSE @]

(* ------------------------------ the read API ----------------------------- *)
\* quis_quis_tx.rs:15-34: hex text to bytes, bytes to Transaction; nothing is stored
decode_transaction(tx_byte_code) == IF tx_byte_code.bytes_ok THEN "Ok" ELSE "Err"

\* db.rs:271-281, 394-464: the query functions -- the rows of one table filtered by
\* t_address, Err when the connection cannot be opened
SelectByAddress(d, t, addr) ==
    [ok |-> db_up, rows |-> IF db_up THEN {r \in d[t] : r.t_address = addr} ELSE {}]

\* api.rs:1276-1286: the routes of the /api scope
Routes == {"health", "decode-zkos-transaction", "decode-zkos-transaction-raw",
           "transactions", "funding", "exchange-withdrawal", "exchange-deposit",
           "btc-deposit", "btc-withdrawal", "qq-account", "address-all"}

\* api.rs:829, 865, 908, 951, 994, 1036, 1078: the table a single-table route reads
RouteTable(route) ==
    CASE route = "transactions"        -> "transactions"
      [] route = "funding"             -> "funds_moved"
      [] route = "exchange-withdrawal" -> "dark_burned_sats"
      [] route = "exchange-deposit"    -> "dark_minted_sats"
      [] route = "btc-deposit"         -> "lit_minted_sats"
      [] route = "btc-withdrawal"      -> "lit_burned_sats"
      [] route = "qq-account"          -> "addr_mappings"

\* api.rs:1122-1127: the tables GET /api/address/{t_address}/all reads
AllDataTables == {"transactions", "funds_moved", "dark_burned_sats", "dark_minted_sats",
                  "lit_minted_sats", "lit_burned_sats"}

\* an HTTP response: status, tx_type (decode endpoints), transaction_count
\* (records.len()), and the rows returned, by table
Response(route, status, tx_type, count, data) ==
    [route |-> route, status |-> status, tx_type |-> tx_type,
     transaction_count |-> count, data |-> data]
NoRows == [t \in {} |-> {}]
NoResponse == Response("none", 0, "", 0, NoRows)

\* variant: the decode endpoints decode through decode_qq_transaction, which archives
\* the transaction
HandleRequest_DecodeArchives(route, t_address, body, d) ==
    IF route = "health"
    THEN [db |-> d, response |-> Response(route, 200, "", 0, NoRows)]
    ELSE IF route \in {"decode-zkos-transaction", "decode-zkos-transaction-raw"}
    THEN IF decode_transaction(body) = "Ok"
         THEN [db |-> insert_qq_tx(d, body.json, 0).db,
               response |-> Response(route, 200, body.variant, 0, NoRows)]
         ELSE [db |-> d, response |-> Response(route, 400, "", 0, NoRows)]
    ELSE IF route = "address-all"
    THEN LET q == [t \in AllDataTables |-> SelectByAddress(d, t, t_address)]
         IN IF \A t \in AllDataTables : q[t].ok
            THEN [db |-> d,
                  response |-> Response(route, 200, "",
                                        Cardinality(q["transactions"].rows),
                                        [t \in AllDataTables \ {"transactions"} |-> q[t].rows])]
            ELSE [db |-> d, response |-> Response(route, 500, "", 0, NoRows)]
    ELSE LET t == RouteTable(route)
             q == SelectByAddress(d, t, t_address)
         IN IF ~q.ok THEN [db |-> d, response |-> Response(route, 500, "", 0, NoRows)]
            ELSE IF route = "transactions"
            THEN [db |-> d,
                  response |-> Response(route, 200, "", Cardinality(q.rows), NoRows)]
            ELSE [db |-> d, response |-> Response(route, 200, "", 0, [u \in {t} |-> q.rows])]

\* api.rs:1213-1218 (health_check), 648-811 (the two decode endpoints), 826-848
\* (get_transactions), 862-1098 (the other single-table endpoints), 1117-1200
\* (get_address_all_data): the response and the database after the request
HandleRequest(route, t_address, body, d) ==
    IF route = "health"
    THEN [db |-> d, response |-> Response(route, 200, "", 0, NoRows)]
    ELSE IF route \in {"decode-zkos-transaction", "decode-zkos-transaction-raw"}
    THEN IF decode_transaction(body) = "Ok"
         THEN [db |-> d, response |-> Response(route, 200, body.variant, 0, NoRows)]
         ELSE [db |-> d, response |-> Response(route, 400, "", 0, NoRows)]
    ELSE IF route = "address-all"
    THEN LET q == [t \in AllDataTables |-> SelectByAddress(d, t, t_address)]
         IN IF \A t \in AllDataTables : q[t].ok
            THEN [db |-> d,
                  response |-> Response(route, 200, "",
                                        Cardinality(q["transactions"].rows),
                                        [t \in AllDataTables \ {"transactions"} |-> q[t].rows])]
            ELSE [db |-> d, response |-> Response(route, 500, "", 0, NoRows)]
    ELSE LET t == RouteTable(route)
             q == SelectByAddress(d, t, t_address)
         IN IF ~q.ok THEN [db |-> d, response |-> Response(route, 500, "", 0, NoRows)]
            ELSE IF route = "transactions"
            THEN [db |-> d,
                  response |-> Response(route, 200, "", Cardinality(q.rows), NoRows)]
            ELSE [db |-> d, response |-> Response(route, 200, "", 0, [u \in {t} |-> q.rows])]

(* -------------------------------- Init ---------------------------------- *)
\* main.rs:34-59: what main starts for a configuration
ApiAtStart(ea) == IF ea THEN "serving" ELSE "off"
IndexerAtStart(ei) == IF ei THEN "start" ELSE "off"

\* the ingestion loop and the process when main starts
LoopInit ==
    /\ enable_api \in BOOLEAN
    /\ enable_indexer \in BOOLEAN
    /\ api = ApiAtStart(enable_api)
    /\ pc = IndexerAtStart(enable_indexer)
    /\ latest_height = 0
    /\ block_height = 0
    /\ attempt = 0
    /\ txs = <<>>
    /\ tx_i = 1
    /\ local_block_height \in {0, 1, MaxHeight + 1}
    /\ chain_head \in Heights
    /\ runs = 0
    /\ last_op = "none"
    /\ last_fetch = "none"
    /\ fetch_h = 0
    /\ prev_attempt = 0
    /\ streak = 0
    /\ streak_base = 0
    /\ completed = {}
    /\ cursor0 = local_block_height
    /\ inflight_at_write = 0
    /\ dispatched = <<>>
    /\ head_failed = FALSE
    /\ head_fail_at_start = FALSE
    /\ did_fetch = FALSE
    /\ did_write = FALSE
    /\ idle_ops = <<>>
    /\ served_after_fatal = FALSE

\* db.rs:381-388 (main.rs:14): the migrations have run, nothing is stored yet
DbInit ==
    /\ db = EmptyDb
    /\ db_up = TRUE
    /\ disasm = NoDisasm
    /\ response = NoResponse
    /\ calls = <<>>
    /\ trace = <<>>
    /\ db_before_block = EmptyDb

Init ==
    /\ LoopInit
    /\ DbInit
    /\ gas_triple_unique = FALSE
    /\ chain_txs = <<>>

(* ------------------------- subscribe_block steps ------------------------ *)
\* pubsub_chain.rs:40-50: startup head query, read of the persisted height, attempt = 0
GetLatestAtStart ==
    /\ pc = "start"
    /\ \E r \in get_latest_block_height :
         IF r.ok
         THEN /\ latest_height' = r.height
              /\ block_height' = get_local_block_height
              /\ attempt' = 0
              /\ pc' = "while"
              /\ UNCHANGED <<head_failed, head_fail_at_start>>
         ELSE /\ pc' = IF OnLatestHeightErr = "fatal" THEN "fatal" ELSE "while"
              /\ latest_height' = 0
              /\ block_height' = IF OnLatestHeightErr = "fatal" THEN block_height
                                 ELSE get_local_block_height
              /\ attempt' = 0
              /\ head_failed' = TRUE
              /\ head_fail_at_start' = TRUE
    /\ last_op' = "start"
    /\ UNCHANGED <<config, api, txs, tx_i, local_block_height, chain_head, runs,
                   fetch_hist, completed, cursor0, inflight_at_write, dispatched,
                   did_fetch, did_write, idle_ops, served_after_fatal>>
    /\ UNCHANGED dbvars

\* pubsub_chain.rs:51-78: loop condition holds, fetch the block, take the match arm;
\* results are the outcomes the fetch can have
FetchBlockFrom(results) ==
    /\ pc = "while"
    /\ WhileCondition(block_height, latest_height)
    /\ \E r \in results :
         IF r.ok
         THEN LET n == OnFetchOk(r.txs, block_height)
              IN /\ txs' = r.txs
                 /\ pc' = n.pc
                 /\ block_height' = n.block_height
                 /\ attempt' = attempt
                 /\ last_fetch' = "ok"
                 /\ streak' = 0
                 /\ streak_base' = streak_base
                 /\ completed' = IF r.txs = <<>> THEN completed \cup {block_height}
                                 ELSE completed
         ELSE LET n == OnFetchError(r.err, block_height, attempt)
                  skip == r.err # "3" /\ attempt + 1 = MaxAttempts
                  s == IF last_fetch = "fail" /\ fetch_h = block_height
                       THEN streak + 1 ELSE 1
              IN /\ txs' = <<>>
                 /\ pc' = "write"
                 /\ block_height' = n.block_height
                 /\ attempt' = n.attempt
                 /\ last_fetch' = IF r.err = "3" THEN "benign"
                                  ELSE IF skip THEN "skip" ELSE "fail"
                 /\ streak' = IF r.err = "3" THEN 0 ELSE s
                 /\ streak_base' = IF r.err # "3" /\ s = 1 THEN attempt ELSE streak_base
                 /\ completed' = IF r.err = "3" \/ skip THEN completed \cup {block_height}
                                 ELSE completed
    /\ tx_i' = 1
    /\ dispatched' = <<>>
    /\ fetch_h' = block_height
    /\ prev_attempt' = attempt
    /\ did_fetch' = TRUE
    /\ idle_ops' = <<>>
    /\ last_op' = "fetch"
    /\ UNCHANGED <<config, api, latest_height, local_block_height, chain_head, runs,
                   cursor0, inflight_at_write, head_failed, head_fail_at_start,
                   did_write, served_after_fatal>>
    /\ UNCHANGED dbvars

\* the fetch when the content of the chain is left open
FetchBlock == FetchBlockFrom(get_block_data_from_height(block_height))

\* BlockRaw::get_block_data_from_height(h) on a chain whose block is chain_txs:
\* Ok(block) or the benign Err("3")
get_block_data_of_chain(h) ==
    {[ok |-> TRUE, err |-> "", txs |-> chain_txs], [ok |-> FALSE, err |-> "3", txs |-> <<>>]}

\* the fetch when the chain holds one immutable block
FetchBlockFacts == FetchBlockFrom(get_block_data_of_chain(block_height))

\* pubsub_chain.rs:56-59: one iteration of the transaction loop, given the outcome of
\* the decoder; after the last transaction the height is incremented.  A panic inside
\* the decoder ends the thread.
DispatchCtl(r) ==
    /\ dispatched' = Append(dispatched, txs[tx_i])
    /\ IF r = "Panic"
       THEN /\ pc' = "panicked"
            /\ UNCHANGED <<tx_i, block_height, completed>>
       ELSE /\ tx_i' = tx_i + 1
            /\ IF tx_i = Len(txs)
               THEN /\ block_height' = block_height + 1
                    /\ pc' = "write"
                    /\ completed' = completed \cup {block_height}
               ELSE /\ pc' = "dispatch"
                    /\ UNCHANGED <<block_height, completed>>
    /\ last_op' = "dispatch"
    /\ UNCHANGED <<config, api, latest_height, attempt, txs, local_block_height,
                   chain_head, runs, fetch_hist, cursor0, inflight_at_write,
                   run_hist, idle_ops, served_after_fatal>>

\* the transaction loop with the tables left out: only the outcome of the decoder,
\* which does not depend on what is stored, is observed
DispatchTx ==
    /\ pc = "dispatch"
    /\ tx_i <= Len(txs)
    /\ DispatchCtl(decode_tx_base64_standard(txs[tx_i]))
    /\ UNCHANGED dbvars

\* the transaction loop with the rows the decoder stores
DispatchTxFacts ==
    /\ pc = "dispatch"
    /\ tx_i <= Len(txs)
    /\ \E r \in IngestTx(db, txs[tx_i], block_height) :
          /\ DispatchCtl(r.res)
          /\ db' = r.db
          /\ trace' = r.trace
    /\ db_before_block' = IF tx_i = 1 THEN db ELSE db_before_block
    /\ UNCHANGED <<gas_triple_unique, db_up, chain_txs, calls, disasm, response>>

\* pubsub_chain.rs:80: persist the height at the end of every loop iteration
WriteHeight ==
    /\ pc = "write"
    /\ local_block_height' = HeightToWrite(block_height)
    /\ pc' = "while"
    /\ txs' = <<>>
    /\ tx_i' = 1
    /\ dispatched' = <<>>
    /\ inflight_at_write' = fetch_h
    /\ did_write' = TRUE
    /\ last_op' = "write"
    /\ UNCHANGED <<config, api, latest_height, block_height, attempt, chain_head,
                   runs, fetch_hist, completed, cursor0, head_failed,
                   head_fail_at_start, did_fetch, idle_ops, served_after_fatal>>
    /\ UNCHANGED dbvars

\* pubsub_chain.rs:51: loop condition fails, control leaves the while loop
ExitCatchUp ==
    /\ pc = "while"
    /\ ~WhileCondition(block_height, latest_height)
    /\ pc' = IdleOrder[1]
    /\ idle_ops' = <<>>
    /\ last_op' = "exit"
    /\ UNCHANGED <<config, api, locals, local_block_height, chain_head, runs,
                   fetch_hist, completed, cursor0, inflight_at_write, dispatched,
                   run_hist, served_after_fatal>>
    /\ UNCHANGED dbvars

\* pubsub_chain.rs:83-89: re-query of the remote head
Requery ==
    /\ pc = "requery"
    /\ \E r \in get_latest_block_height :
         IF r.ok
         THEN /\ latest_height' = r.height
              /\ pc' = IdleNext("requery")
              /\ attempt' = IF IdleNext("requery") = "while" THEN 0 ELSE attempt
              /\ UNCHANGED <<head_failed, head_fail_at_start>>
         ELSE /\ pc' = IF OnLatestHeightErr = "fatal" THEN "fatal" ELSE IdleNext("requery")
              /\ latest_height' = IF OnLatestHeightErr = "fatal" THEN latest_height ELSE 0
              /\ attempt' = attempt
              /\ head_failed' = TRUE
              /\ head_fail_at_start' = FALSE
    /\ idle_ops' = Append(idle_ops, "requery")
    /\ last_op' = "requery"
    /\ UNCHANGED <<config, api, block_height, txs, tx_i, local_block_height,
                   chain_head, runs, fetch_hist, completed, cursor0, inflight_at_write,
                   dispatched, did_fetch, did_write, served_after_fatal>>
    /\ UNCHANGED dbvars

\* pubsub_chain.rs:91: persist the height outside the while loop
WriteHeightIdle ==
    /\ pc = "write_idle"
    /\ local_block_height' = block_height
    /\ pc' = IdleNext("write_idle")
    /\ attempt' = IF IdleNext("write_idle") = "while" THEN 0 ELSE attempt
    /\ did_write' = TRUE
    /\ idle_ops' = Append(idle_ops, "write")
    /\ last_op' = "write_idle"
    /\ UNCHANGED <<config, api, latest_height, block_height, txs, tx_i, chain_head,
                   runs, fetch_hist, completed, cursor0, inflight_at_write, dispatched,
                   head_failed, head_fail_at_start, did_fetch, served_after_fatal>>
    /\ UNCHANGED dbvars

\* pubsub_chain.rs:93 and 50: sleep 30 seconds
Sleep ==
    /\ pc = "sleep"
    /\ pc' = IdleNext("sleep")
    /\ attempt' = IF IdleNext("sleep") = "while" THEN 0 ELSE attempt
    /\ idle_ops' = Append(idle_ops, "sleep")
    /\ last_op' = "sleep"
    /\ UNCHANGED <<config, api, latest_height, block_height, txs, tx_i,
                   local_block_height, chain_head, runs, fetch_hist, completed,
                   cursor0, inflight_at_write, dispatched, run_hist, served_after_fatal>>
    /\ UNCHANGED dbvars


(* ------------------------------- process -------------------------------- *)
ThreadRunning == pc \in {"start", "while", "dispatch", "write", "requery", "write_idle", "sleep"}

\* main.rs:34-59: main returns when start_api_server has returned and, if the
\* indexer was started, subscribe_block has ended
ProcessAlive == api = "serving" \/ ThreadRunning

\* api.rs:1273-1288: a request handled by the API server
ApiRequest ==
    /\ api = "serving"
    /\ served_after_fatal' = (served_after_fatal \/ pc = "fatal")
    /\ UNCHANGED <<config, api, pc, locals, local_block_height, chain_head, runs,
                   last_op, fetch_hist, completed, cursor0, inflight_at_write,
                   dispatched, run_hist, idle_ops>>
    /\ UNCHANGED dbvars

\* main.rs:43-45 / 51-53: start_api_server returns
ApiServerStops ==
    /\ api = "serving"
    /\ api' = "stopped"
    /\ UNCHANGED <<config, pc, locals, local_block_height, chain_head, ghosts>>
    /\ UNCHANGED dbvars

\* the remote chain commits a block
NewBlock ==
    /\ chain_head < MaxHeight
    /\ chain_head' = chain_head + 1
    /\ UNCHANGED <<config, api, pc, locals, local_block_height, ghosts>>
    /\ UNCHANGED dbvars

\* the process is terminated from outside at an arbitrary point
Kill ==
    /\ ProcessAlive
    /\ api' = IF enable_api THEN "down" ELSE "off"
    /\ pc' = IF enable_indexer THEN "down" ELSE "off"
    /\ UNCHANGED <<config, locals, local_block_height, chain_head, ghosts>>
    /\ UNCHANGED dbvars

\* the process is started again: main.rs:34-59 with fresh locals
Restart ==
    /\ ~ProcessAlive
    /\ enable_api \/ enable_indexer
    /\ runs < MaxRuns
    /\ runs' = runs + 1
    /\ api' = ApiAtStart(enable_api)
    /\ pc' = IndexerAtStart(enable_indexer)
    /\ latest_height' = 0
    /\ block_height' = 0
    /\ attempt' = 0
    /\ txs' = <<>>
    /\ tx_i' = 1
    /\ last_op' = "none"
    /\ last_fetch' = "none"
    /\ fetch_h' = 0
    /\ prev_attempt' = 0
    /\ streak' = 0
    /\ streak_base' = 0
    /\ dispatched' = <<>>
    /\ head_failed' = FALSE
    /\ head_fail_at_start' = FALSE
    /\ did_fetch' = FALSE
    /\ did_write' = FALSE
    /\ idle_ops' = <<>>
    /\ UNCHANGED <<config, local_block_height, chain_head, completed, cursor0,
                   inflight_at_write, served_after_fatal>>
    /\ UNCHANGED dbvars

Next ==
    \/ GetLatestAtStart
    \/ FetchBlock
    \/ DispatchTx
    \/ WriteHeight
    \/ ExitCatchUp
    \/ Requery
    \/ WriteHeightIdle
    \/ Sleep
    \/ ApiRequest
    \/ ApiServerStops
    \/ NewBlock
    \/ Kill
    \/ Restart

Spec == Init /\ [][Next]_vars

(* ------------- the ingestion thread running without interruption ------- *)
\* main.rs:55-57: the indexer alone is started; the remote head stays where it is
InitLive ==
    /\ Init
    /\ enable_indexer
    /\ ~enable_api

\* the steps of subscribe_block
NextLive ==
    \/ GetLatestAtStart
    \/ FetchBlock
    \/ DispatchTx
    \/ WriteHeight
    \/ ExitCatchUp
    \/ Requery
    \/ WriteHeightIdle
    \/ Sleep

\* subscribe_block is sequential code on a thread of its own: while the thread has not
\* ended, its next statement is eventually executed (every call returns)
SpecLive == InitLive /\ [][NextLive]_vars /\ WF_vars(NextLive)

(* ---------------- the persistence gateway called directly ---------------- *)
\* argument values the gateway is called with
Addrs == {"a1", "a2"}
QAddrs == {"q1", "q2"}
Denoms == {"nyks", "sats"}
Deltas == {5, 7}
DbHeights == {1, 2}
QqTexts == {"{\"a\":1}", "{\"b\":2}"}

\* the process is not started; the gateway functions are called on an empty database
InitDb ==
    /\ LoopInit
    /\ ~enable_api
    /\ ~enable_indexer
    /\ local_block_height = 0
    /\ chain_head = 0
    /\ DbInit
    /\ gas_triple_unique \in BOOLEAN
    /\ chain_txs = <<>>

\* one direct call of a gateway function, recorded in calls
GatewayStep(f, a, r) ==
    /\ Len(calls) < MaxCalls
    /\ db' = r.db
    /\ calls' = Append(calls, [fn |-> f, args |-> a, res |-> r.res, conflict |-> r.conflict])
    /\ UNCHANGED <<loopvars, gas_triple_unique, db_up, chain_txs, trace, db_before_block,
                   disasm, response>>

CallInsertTransactionCount ==
    \E a \in Addrs, h \in DbHeights :
        GatewayStep("insert_transaction_count", <<a, h>>, insert_transaction_count(db, a, h))

CallInsertFundsMoved ==
    \E a \in Addrs, x \in Deltas, dn \in Denoms, h \in DbHeights :
        GatewayStep("insert_funds_moved", <<a, x, dn, h>>, insert_funds_moved(db, a, x, dn, h))

CallInsertDarkBurnedSats ==
    \E a \in Addrs, q \in QAddrs :
        GatewayStep("insert_dark_burned_sats", <<a, q, 5, 1>>,
                    insert_dark_burned_sats(db, a, q, 5, 1))

CallInsertDarkMintedSats ==
    \E a \in Addrs, q \in QAddrs, h \in DbHeights :
        GatewayStep("insert_dark_minted_sats", <<a, q, 5, h>>,
                    insert_dark_minted_sats(db, a, q, 5, h))

CallInsertLitMintedSats ==
    \E a \in Addrs, h \in DbHeights :
        GatewayStep("insert_lit_minted_sats", <<a, 5, h>>, insert_lit_minted_sats(db, a, 5, h))

CallInsertLitBurnedSats ==
    \E a \in Addrs, h \in DbHeights :
        GatewayStep("insert_lit_burned_sats", <<a, 7, h>>, insert_lit_burned_sats(db, a, 7, h))

CallInsertAddrMappings ==
    \E a \in Addrs, q \in QAddrs, h \in DbHeights :
        GatewayStep("insert_addr_mappings", <<a, q, h>>, insert_addr_mappings(db, a, q, h))

CallInsertGasUsed ==
    \E a \in Addrs, dn \in Denoms, h \in DbHeights :
        GatewayStep("insert_gas_used", <<a, 5, dn, h>>, insert_gas_used(db, a, 5, dn, h))

CallInsertQqTx ==
    \E s \in QqTexts, h \in DbHeights :
        GatewayStep("insert_qq_tx", <<s, h>>, insert_qq_tx(db, s, h))

CallInsertTradingTx ==
    \E t \in QAddrs, h \in DbHeights :
        GatewayStep("insert_trading_tx", <<t, "q1", h>>, insert_trading_tx(db, t, "q1", h))

CallInsertOrderOpenTx ==
    \E t \in QAddrs, h \in DbHeights :
        GatewayStep("insert_order_open_tx", <<t, "q1", h>>, insert_order_open_tx(db, t, "q1", h))

CallInsertOrderCloseTx ==
    \E f \in QAddrs, h \in DbHeights :
        GatewayStep("insert_order_close_tx", <<"q1", f, h>>, insert_order_close_tx(db, "q1", f, h))

NextDb ==
    \/ CallInsertTransactionCount
    \/ CallInsertFundsMoved
    \/ CallInsertDarkBurnedSats
    \/ CallInsertDarkMintedSats
    \/ CallInsertLitMintedSats
    \/ CallInsertLitBurnedSats
    \/ CallInsertAddrMappings
    \/ CallInsertGasUsed
    \/ CallInsertQqTx
    \/ CallInsertTradingTx
    \/ CallInsertOrderOpenTx
    \/ CallInsertOrderCloseTx

SpecDb == InitDb /\ [][NextDb]_vars


(* --------------- ingestion of one block with the rows it stores ---------- *)
SendMsg(n, from, to, coins) ==
    With(Msg(Url(n, "cosmos.bank.v1beta1.MsgSend"), TRUE, coins, NoInner),
         [from_address |-> from, to_address |-> to])
MintBurnMsg(addr, q, v, mint) ==
    With(Msg(Url(1, "twilightproject.nyks.zkos.MsgMintBurnTradingBtc"), TRUE, <<>>, NoInner),
         [twilight_address |-> addr, qq_account |-> q, amount |-> v, mint_or_burn |-> mint])
\* a confidential Transfer from a Coin owned by owner to a Memo output of account acct
TransferMsg(n, owner, acct) ==
    Msg(Url(n, "twilightproject.nyks.zkos.MsgTransferTx"), TRUE, <<>>,
        [bytes_ok |-> TRUE, variant |-> "Transfer",
         inputs  |-> << [in_type |-> "Coin", owner |-> owner] >>,
         outputs |-> << [out_type |-> "Memo", account |-> acct] >>,
         json |-> "{\"a\":1}"])

\* a1 sends 5 nyks to a2 and pays a fee of 7 nyks
FSend ==
    With(Tx("ok", << SendMsg(1, "a1", "a2", << Coin("5", "nyks") >>) >>),
         [fee |-> << Coin("7", "nyks") >>])
DepositMsg(addr, v) ==
    With(Msg(Url(1, "twilightproject.nyks.bridge.MsgConfirmBtcDeposit"), TRUE, <<>>, NoInner),
         [twilight_address |-> addr, amount |-> v])
\* a confirmed BTC deposit of 5 sats, one whose u64 amount is the smallest above the
\* i64 range, and a bank send whose amount string is a negative number
FNegativeAmounts ==
    Tx("ok", << DepositMsg("a1", 5), DepositMsg("a1", I64Max + 1),
                SendMsg(0, "a1", "a2", << Coin("-3", "nyks") >>) >>)
\* a1 mints 5 sats into zk-account q1 and pays a fee of 5 sats
FMint ==
    With(Tx("ok", << MintBurnMsg("a1", "q1", 5, TRUE) >>), [fee |-> << Coin("5", "sats") >>])
\* a1 burns 5 sats from q1 and requests a BTC withdrawal of 7 sats
FBurnWithdraw ==
    Tx("ok", << MintBurnMsg("a1", "q1", 5, FALSE),
                With(Msg(Url(0, "twilightproject.nyks.bridge.MsgWithdrawBtcRequest"), TRUE,
                         <<>>, NoInner),
                     [twilight_address |-> "a1", amount |-> 7]) >>)
\* a confidential Transfer from the Coin of q1 to a Memo of q2, followed by a bank
\* send in the same transaction
FTransferThenSend ==
    Tx("ok", << TransferMsg(1, "q1", "q2"), SendMsg(0, "a2", "a1", << Coin("7", "nyks") >>) >>)
\* two messages of unrecognised type followed by a bank send
FUnknownThenSend ==
    Tx("ok", << With(SendMsg(2, "a1", "a2", << Coin("5", "nyks") >>), [value |-> <<10, 255>>]),
                With(Msg(Url(1, "cosmos.authz.v1beta1.MsgExec"), TRUE, <<>>, NoInner),
                     [value |-> <<0, 171>>]),
                SendMsg(0, "a1", "a2", << Coin("5", "nyks") >>) >>)
\* a1 mints 5 sats into q1; the next message of the same transaction is a confidential
\* Transfer from the Coin of q1 to a Memo of q2
FMintThenTransfer ==
    Tx("ok", << MintBurnMsg("a1", "q1", 5, TRUE), TransferMsg(0, "q1", "q2") >>)

FactTxSet == {FSend, FNegativeAmounts, FMint, FBurnWithdraw, FTransferThenSend,
              FUnknownThenSend, TxTransferBadOutput, FMintThenTransfer}

\* contents the block of the chain can have
FactBlocks == SeqsUpTo(FactTxSet, MaxTxs) \ {<<>>}

\* the indexer alone is started on an empty database; the chain holds one block, at
\* the height the cursor points to
InitIngest ==
    /\ LoopInit
    /\ enable_indexer
    /\ ~enable_api
    /\ local_block_height = 1
    /\ chain_head = 1
    /\ DbInit
    /\ gas_triple_unique \in BOOLEAN
    /\ chain_txs \in FactBlocks

NextIngest ==
    \/ GetLatestAtStart
    \/ FetchBlockFacts
    \/ DispatchTxFacts
    \/ WriteHeight
    \/ ExitCatchUp
    \/ Requery
    \/ WriteHeightIdle
    \/ Sleep
    \/ Kill
    \/ Restart

SpecIngest == InitIngest /\ [][NextIngest]_vars

(* ------------- the API server and the indexer in one process ------------- *)
\* contents of the block the indexer ingests while the API serves
ServeBlocks == { <<FSend, FMint>>, <<FMintThenTransfer, FBurnWithdraw>> }

\* request bodies of the decode endpoints: a Transfer, a Script, an undecodable text
DecodeBodies == { TransferMsg(1, "q1", "q2").inner,
                  With(TransferMsg(1, "q1", "q2").inner,
                       [variant |-> "Script", json |-> "{\"c\":3}"]),
                  NoInner }

\* main.rs:34-48: both are started, on an empty database; the chain holds one block
InitServe ==
    /\ LoopInit
    /\ enable_indexer
    /\ enable_api
    /\ local_block_height = 1
    /\ chain_head = 1
    /\ DbInit
    /\ gas_triple_unique \in BOOLEAN
    /\ chain_txs \in ServeBlocks

\* api.rs:1273-1288: the API server handles one request
ApiRequestFacts ==
    /\ api = "serving"
    /\ \E route \in Routes, t_address \in Addrs, body \in DecodeBodies :
          LET r == HandleRequest(route, t_address, body, db)
          IN /\ db' = r.db
             /\ response' = r.response
    /\ served_after_fatal' = (served_after_fatal \/ pc = "fatal")
    /\ UNCHANGED <<config, api, pc, locals, local_block_height, chain_head, runs,
                   last_op, fetch_hist, completed, cursor0, inflight_at_write,
                   dispatched, run_hist, idle_ops>>
    /\ UNCHANGED <<gas_triple_unique, db_up, chain_txs, calls, trace, db_before_block,
                   disasm>>

NextServe ==
    \/ GetLatestAtStart
    \/ FetchBlockFacts
    \/ DispatchTxFacts
    \/ WriteHeight
    \/ ExitCatchUp
    \/ Requery
    \/ WriteHeightIdle
    \/ Sleep
    \/ ApiRequestFacts
    \/ ApiServerStops
    \/ Kill
    \/ Restart

SpecServe == InitServe /\ [][NextServe]_vars

(* ------------- transactions handed to the decoder one by one ------------- *)
\* a confidential message: the inner transaction of the given variant with one input
\* (kind ik, owned by owner) and one output (kind ok, deriving account acct)
ConfMsg(variant, ik, ok, owner, acct, text) ==
    Msg(Url(1, "twilightproject.nyks.zkos.MsgTransferTx"), TRUE, <<>>,
        [bytes_ok |-> TRUE, variant |-> variant,
         inputs  |-> << [in_type |-> ik, owner |-> owner] >>,
         outputs |-> << [out_type |-> ok, account |-> acct] >>,
         json |-> text])
\* a Script transaction, all with the archive text {"c":3}
ScriptMsg(ik, ok, owner, acct) == ConfMsg("Script", ik, ok, owner, acct, "{\"c\":3}")

\* a1 mints into q1, then q1 is spent by a Coin -> Coin and by a Coin -> Memo Transfer
XMintTransfers ==
    Tx("ok", << MintBurnMsg("a1", "q1", 5, TRUE),
                ConfMsg("Transfer", "Coin", "Coin", "q1", "q2", "{\"a\":1}"),
                ConfMsg("Transfer", "Coin", "Memo", "q1", "q2", "{\"b\":2}") >>)
\* Script transactions of all four kind combinations
XScripts ==
    Tx("ok", << ScriptMsg("Coin", "Memo", "q1", "q2"), ScriptMsg("Memo", "Coin", "q2", "q1"),
                ScriptMsg("Coin", "Coin", "q1", "q2"), ScriptMsg("Memo", "Memo", "q2", "q1") >>)
\* a Script transaction whose first output derives no account, one whose first input
\* has no owner address, one without inputs, then a bank send
XScriptsSkipped ==
    Tx("ok", << ScriptMsg("Coin", "Memo", "q1", "err"), ScriptMsg("Coin", "Memo", "none", "q2"),
                With(ScriptMsg("Coin", "Memo", "q1", "q2"),
                     [inner |-> [bytes_ok |-> TRUE, variant |-> "Script", inputs |-> <<>>,
                                 outputs |-> << [out_type |-> "Memo", account |-> "q2"] >>,
                                 json |-> "{\"c\":3}"]]),
                SendMsg(0, "a1", "a2", << Coin("5", "nyks") >>) >>)
\* a Message-variant transaction followed by a bank send
XMessage ==
    Tx("ok", << Msg(Url(1, "twilightproject.nyks.zkos.MsgTransferTx"), TRUE, <<>>,
                    [bytes_ok |-> TRUE, variant |-> "Message", inputs |-> <<>>,
                     outputs |-> <<>>, json |-> "{\"d\":4}"]),
                SendMsg(0, "a1", "a2", << Coin("5", "nyks") >>) >>)
\* a1 mints the largest i64 amount into q2, then burns it
XMintMaxBurn ==
    Tx("ok", << MintBurnMsg("a1", "q2", I64Max, TRUE), MintBurnMsg("a1", "q2", I64Max, FALSE) >>)

\* transactions whose envelope does not decode: the TxRaw, the TxBody, and the
\* AuthInfo of a transaction whose body holds a bank send and whose fee is 7 nyks
XTxRawFails == Tx("txraw", <<>>)
XBodyFails == Tx("body", <<>>)
XAuthFails ==
    With(Tx("auth", << SendMsg(0, "a1", "a2", << Coin("5", "nyks") >>) >>),
         [fee |-> << Coin("7", "nyks") >>])
\* a bank send, a MsgVote that does not decode, a second bank send; the fee is 7 nyks
XSendBadVoteSend ==
    With(Tx("ok", << SendMsg(0, "a1", "a2", << Coin("5", "nyks") >>),
                     Msg(Url(1, "cosmos.gov.v1beta1.MsgVote"), FALSE, <<>>, NoInner),
                     SendMsg(0, "a2", "a1", << Coin("7", "nyks") >>) >>),
         [fee |-> << Coin("7", "nyks") >>])

ConfTxSet == {XMintTransfers, XScripts, XScriptsSkipped, XMessage, XMintMaxBurn, FMint,
              FBurnWithdraw, FTransferThenSend, TxTransferBadOutput,
              TxBadBase64, XTxRawFails, XBodyFails, XAuthFails, XSendBadVoteSend}

\* the process is not started; decode_tx_base64_standard is called on the
\* transactions of successive blocks, starting from an empty database
InitTx ==
    /\ LoopInit
    /\ ~enable_api
    /\ ~enable_indexer
    /\ local_block_height = 0
    /\ chain_head = 0
    /\ DbInit
    /\ gas_triple_unique \in BOOLEAN
    /\ chain_txs = <<>>

\* pubsub_chain.rs:56-59: the decoder is handed the next transaction, of the block
\* last worked on or of a later one; a panic of an earlier call has ended the thread
ProcessTx ==
    /\ Len(calls) < MaxCalls
    /\ \A k \in DOMAIN calls : calls[k].res # "Panic"
    /\ \E tx \in ConfTxSet, h \in DbHeights :
          /\ calls # <<>> => h >= Last(calls).args[2]
          /\ \E r \in IngestTx(db, tx, h) :
                /\ db' = r.db
                /\ trace' = r.trace
                /\ calls' = Append(calls, [fn |-> "decode_tx_base64_standard",
                                           args |-> <<tx, h>>, res |-> r.res,
                                           conflict |-> FALSE])
    /\ db_before_block' = db
    /\ UNCHANGED <<loopvars, gas_triple_unique, db_up, chain_txs, disasm, response>>

\* the database server stops accepting connections
DbGoesDown ==
    /\ db_up
    /\ db_up' = FALSE
    /\ UNCHANGED <<loopvars, db, gas_triple_unique, chain_txs, calls, trace,
                   db_before_block, disasm, response>>

\* the database server accepts connections again
DbComesUp ==
    /\ ~db_up
    /\ db_up' = TRUE
    /\ UNCHANGED <<loopvars, db, gas_triple_unique, chain_txs, calls, trace,
                   db_before_block, disasm, response>>

NextTx ==
    \/ ProcessTx
    \/ DbGoesDown
    \/ DbComesUp

SpecTx == InitTx /\ [][NextTx]_vars

(* ------------------- the disassembler on bounded programs ---------------- *)
\* elements a program is built from: the opcodes push (0, takes a length and a blob),
\* dup (3, takes an index) and 8 (not in the table), 258 (a number above 255, whose
\* low eight bits are the opcode drop) and -1 (not a u64)
JsonElems == {0, 3, 8, 258, -1}

\* programs in which a blob opcode is followed by its whole blob and by further
\* opcodes: push with a blob of two bytes that are themselves opcodes, program
\* (257, whose low eight bits are 1) with a blob of one byte, and two blobs in a row
BlobPrograms == { <<0, 258, 0, 0, 0, 3, 3, 8>>,
                  <<257, 257, 0, 0, 0, 0, 258>>,
                  <<0, 258, 0, 0, 0, 0, 0, 257, 257, 0, 0, 0, 3, 8>>,
                  <<8, 0, 0, 0, 0, 0, 3, 0, 0, 0, 0, 8>> }

\* the programs decode_program_opcodes is called with
Programs == {[is_array |-> TRUE, arr |-> a] :
                 a \in SeqsUpTo(JsonElems, MaxProgLen) \cup BlobPrograms}
               \cup {NoProgram}

\* only a call of decode_program_opcodes runs
InitDisasm ==
    /\ LoopInit
    /\ ~enable_api
    /\ ~enable_indexer
    /\ local_block_height = 0
    /\ chain_head = 0
    /\ db = EmptyDb
    /\ db_up = TRUE
    /\ calls = <<>>
    /\ trace = <<>>
    /\ db_before_block = EmptyDb
    /\ gas_triple_unique = FALSE
    /\ chain_txs = <<>>
    /\ response = NoResponse
    /\ \E program \in Programs : disasm = StartDisasm(program)

\* api.rs:202-316: the loop test holds and the body runs once
DecodeOpcode ==
    /\ disasm.pc = "loop"
    /\ disasm.i < Len(disasm.bytes)
    /\ disasm' = LoopBody(disasm)
    /\ UNCHANGED <<loopvars, db, gas_triple_unique, db_up, chain_txs, calls, trace,
                   db_before_block, response>>

\* api.rs:202, 318: the loop test fails and the list is returned
ReturnOpcodes ==
    /\ disasm.pc = "loop"
    /\ disasm.i >= Len(disasm.bytes)
    /\ disasm' = [disasm EXCEPT !.pc = "returned"]
    /\ UNCHANGED <<loopvars, db, gas_triple_unique, db_up, chain_txs, calls, trace,
                   db_before_block, response>>

NextDisasm ==
    \/ DecodeOpcode
    \/ ReturnOpcodes

SpecDisasm == InitDisasm /\ [][NextDisasm]_vars

TypeOK ==
    /\ api \in {"off", "serving", "stopped", "down"}
    /\ pc \in {"off", "start", "while", "dispatch", "write", "requery", "write_idle",
               "sleep", "fatal", "panicked", "down"}
    /\ attempt \in 0..(MaxAttempts - 1)
    /\ block_height \in 0..(MaxHeight + 2)
    /\ local_block_height \in 0..(MaxHeight + 2)
    /\ latest_height \in Heights
    /\ streak \in 0..MaxAttempts


(* ============================ properties ================================ *)
IsPrefix(p, q) == Len(p) <= Len(q) /\ SubSeq(q, 1, Len(p)) = p

\* the last fetch was a non-benign failure
LastFetchFailed == last_fetch \in {"fail", "skip"}

\* C1: a height is force-skipped only after 3 consecutive non-benign failures
\* at that same height; failures at earlier heights do not count.
C1_SkipOnlyAfterThreeAtHeight ==
    last_fetch = "skip" => streak = MaxAttempts

\* C2: starting with the attempt counter at 0, three non-benign failures in a
\* row at height H advance the height to H+1 exactly once, reset the attempt
\* counter to 0, persist H+1 as the cursor, and the loop keeps running.
C2_ForcedAdvance ==
    (LastFetchFailed /\ streak = MaxAttempts /\ streak_base = 0 /\ pc # "down") =>
        /\ last_op = "fetch" =>
              (pc = "write" /\ block_height = fetch_h + 1 /\ attempt = 0)
        /\ last_op = "write" =>
              (pc = "while" /\ block_height = fetch_h + 1 /\ attempt = 0
                 /\ local_block_height = fetch_h + 1)

C2_Witness ==
    /\ last_fetch = "skip" /\ streak = MaxAttempts /\ streak_base = 0
    /\ last_op = "write" /\ pc = "while"
    /\ local_block_height = fetch_h + 1

\* C3: a fetch that returns the benign code "3" at height H advances to H+1,
\* persists H+1 as the cursor and leaves the attempt counter unchanged.
C3_BenignAdvance ==
    (last_fetch = "benign" /\ pc # "down") =>
        /\ last_op = "fetch" =>
              (pc = "write" /\ block_height = fetch_h + 1 /\ attempt = prev_attempt)
        /\ last_op = "write" =>
              (pc = "while" /\ block_height = fetch_h + 1 /\ attempt = prev_attempt
                 /\ local_block_height = fetch_h + 1)

C3_Witness ==
    /\ last_fetch = "benign" /\ last_op = "write"
    /\ prev_attempt > 0 /\ attempt = prev_attempt
    /\ local_block_height = fetch_h + 1

\* C4: every write of the cursor stores the previously stored value or that
\* value plus 1 (monotonic, gap-free), whatever the fetch results are.
C4_CursorGapFree ==
    [][local_block_height' = local_block_height
         \/ local_block_height' = local_block_height + 1]_vars

C4_Witness ==
    /\ last_op = "write" /\ last_fetch = "fail"
    /\ local_block_height = fetch_h
    /\ local_block_height >= cursor0 + 2

\* C5: at-least-once across crashes: every height below the persisted cursor
\* was fetched with all its transactions dispatched, was benign-empty or was
\* force-skipped, and no fetch (in particular the first after a restart) is
\* for a height below the one in flight when the cursor was last written.
C5_AtLeastOnce ==
    /\ \A h \in cursor0..(local_block_height - 1) : h \in completed
    /\ last_fetch # "none" => fetch_h >= inflight_at_write

C5_Witness ==
    /\ runs >= 1 /\ last_op = "fetch"
    /\ fetch_h = local_block_height
    /\ fetch_h \in completed
    /\ local_block_height > cursor0

\* C6: a failed head query leads to the terminal fatal state: at startup before
\* any fetch, dispatch or cursor write; after catching up with no further fetch,
\* dispatch or cursor write.
C6_HeadFailureIsFatal ==
    /\ [](head_failed =>
            /\ pc \in {"fatal", "down"}
            /\ head_fail_at_start => (~did_fetch /\ ~did_write /\ dispatched = <<>>))
    /\ [][(head_failed /\ head_failed') =>
            UNCHANGED <<local_block_height, did_fetch, did_write, fetch_h,
                        last_fetch, dispatched, block_height>>]_vars

C6_Witness ==
    /\ head_failed /\ head_fail_at_start /\ pc = "fatal"
    /\ ~did_fetch /\ ~did_write
    /\ runs >= 1 /\ local_block_height > cursor0

\* the other case of C6: the head re-query fails after a catch-up round
C6_WitnessRequery ==
    head_failed /\ ~head_fail_at_start /\ pc = "fatal" /\ did_fetch /\ did_write

\* C7: the only event that stops the ingestion loop is a failure to determine
\* the remote head, whatever the content of a fetched block.
C7_OnlyHeadFailureStops ==
    pc \in {"fatal", "panicked"} => head_failed

\* C8: after a successful fetch of height H every transaction of the block is
\* handed to the decoder in list order and then H+1 is persisted.
C8_BlockCompletes ==
    last_fetch = "ok" =>
        /\ pc \notin {"dispatch", "down"} => dispatched = txs
        /\ pc \notin {"dispatch", "write", "down"} => local_block_height = fetch_h + 1

\* C9 (as claimed): between two catch-up rounds the loop persists the height,
\* sleeps, then re-queries the head, so the head used next is from after the sleep.
C9_PersistSleepRequery ==
    (pc = "while" /\ Len(idle_ops) = Len(IdleOrder)) =>
        idle_ops = <<"write", "sleep", "requery">>

\* C9 (amended): between two catch-up rounds the loop re-queries the head,
\* persists the height, then sleeps; the head used by the next catch-up round
\* is the one obtained before the sleep.
C9_RequeryPersistSleep ==
    /\ IsPrefix(idle_ops, <<"requery", "write", "sleep">>)
    /\ (pc = "while" /\ last_op \in {"requery", "write_idle", "sleep"}) =>
          (last_op = "sleep" /\ idle_ops = <<"requery", "write", "sleep">>)

C9_Witness ==
    /\ pc = "while" /\ last_op = "sleep"
    /\ idle_ops = <<"requery", "write", "sleep">>
    /\ latest_height < chain_head
    /\ block_height <= chain_head

\* C10: with API server and indexer both enabled, the API server serves no
\* request after the indexer hit the fatal head-query failure.
C10_FatalAbortsProcess ==
    ~served_after_fatal

(* ------------------- properties of the persistence gateway -------------- *)

\* gateway functions that insert with ON CONFLICT DO NOTHING, and their tables
AppendOnlyFns == {"insert_transaction_count", "insert_addr_mappings", "insert_trading_tx",
                  "insert_order_open_tx", "insert_order_close_tx"}
AppendOnlyTables == {"transactions", "addr_mappings", "trading_tx", "order_open_tx",
                     "order_close_tx"}

\* the natural key of each append-only table
NaturalKey ==
    [transactions   |-> {"t_address", "block"},
     addr_mappings  |-> {"t_address", "q_address"},
     trading_tx     |-> {"to_address", "from_address", "block"},
     order_open_tx  |-> {"to_address", "from_address", "block"},
     order_close_tx |-> {"to_address", "from_address", "block"}]

\* the call c repeats an earlier successful call of calls
Repeats(c) ==
    \E i \in DOMAIN calls : /\ calls[i].fn = c.fn
                            /\ calls[i].args = c.args
                            /\ calls[i].res = "Ok"

RECURSIVE FundsSum(_, _, _, _)
FundsSum(cs, a, dn, h) ==
    IF cs = <<>> THEN 0
    ELSE (IF Head(cs).fn = "insert_funds_moved" /\ Head(cs).args[1] = a
             /\ Head(cs).args[3] = dn /\ Head(cs).args[4] = h
          THEN Head(cs).args[2] ELSE 0) + FundsSum(Tail(cs), a, dn, h)

FundsRows(a, dn, h) ==
    {r \in db["funds_moved"] : r.t_address = a /\ r.denom = dn /\ r.block = h}

\* C12: after any sequence of insert_funds_moved calls there is exactly one row for
\* every (address, denomination, block) that was upserted and none for any other key,
\* and the amount of the row is the sum of all deltas upserted for its key.
C12_FundsMovedSumPerKey ==
    /\ \A r \in db["funds_moved"] :
          r.t_address \in Addrs /\ r.denom \in Denoms /\ r.block \in DbHeights
    /\ \A a \in Addrs, dn \in Denoms, h \in DbHeights :
          IF \E i \in DOMAIN calls : /\ calls[i].fn = "insert_funds_moved"
                                     /\ <<calls[i].args[1], calls[i].args[3], calls[i].args[4]>>
                                           = <<a, dn, h>>
          THEN \E r \in FundsRows(a, dn, h) :
                  FundsRows(a, dn, h) = {r} /\ r.amount = FundsSum(calls, a, dn, h)
          ELSE FundsRows(a, dn, h) = {}

\* two different deltas were upserted for one key and the row holds their sum
C12_Witness ==
    /\ Len(calls) = 2
    /\ calls[1].fn = "insert_funds_moved"
    /\ calls[2].fn = "insert_funds_moved"
    /\ calls[2].conflict
    /\ calls[1].args[2] # calls[2].args[2]
    /\ \E r \in db["funds_moved"] : r.amount = 12

\* sum of the deltas of the insert_dark_minted_sats calls in cs for address a and the
\* accounts in qs
RECURSIVE MintSum(_, _, _)
MintSum(cs, a, qs) ==
    IF cs = <<>> THEN 0
    ELSE (IF Head(cs).fn = "insert_dark_minted_sats" /\ Head(cs).args[1] = a
             /\ Head(cs).args[2] \in qs
          THEN Head(cs).args[3] ELSE 0) + MintSum(Tail(cs), a, qs)

\* positions in calls of the mints of address a
MintsOf(a) ==
    {i \in DOMAIN calls : calls[i].fn = "insert_dark_minted_sats" /\ calls[i].args[1] = a}

\* C15 (as claimed): dark-minted amounts are kept per (address, zk-account): every
\* pair that was minted has a row of its own whose amount is the sum of the deltas
\* minted by that address into that account.
C15_DarkMintedPerAccount ==
    \A a \in Addrs, q \in QAddrs :
        (\E i \in MintsOf(a) : calls[i].args[2] = q) =>
            \E r \in db["dark_minted_sats"] :
                r.t_address = a /\ r.q_address = q /\ r.amount = MintSum(calls, a, {q})

\* C15 (amended): dark-minted amounts are kept per address alone: all mints of an
\* address, whatever zk-account they name, accumulate into the single row of that
\* address, which keeps the zk-account and the block of the first mint.
C15_DarkMintedPerAddress ==
    \A a \in Addrs :
        LET rows == {r \in db["dark_minted_sats"] : r.t_address = a}
        IN IF MintsOf(a) = {} THEN rows = {}
           ELSE LET first == calls[CHOOSE i \in MintsOf(a) : \A j \in MintsOf(a) : i <= j]
                IN rows = {[t_address |-> a, q_address |-> first.args[2],
                            amount |-> MintSum(calls, a, QAddrs),
                            block |-> first.args[4]]}

\* one address minted into two different zk-accounts and holds one row with the total
C15_Witness ==
    /\ Len(calls) = 2
    /\ calls[1].fn = "insert_dark_minted_sats"
    /\ calls[2].fn = "insert_dark_minted_sats"
    /\ calls[1].args[1] = calls[2].args[1]
    /\ calls[1].args[2] # calls[2].args[2]
    /\ \E r \in db["dark_minted_sats"] :
          db["dark_minted_sats"] = {r} /\ r.amount = calls[1].args[3] + calls[2].args[3]

RECURSIVE GasSum(_, _, _, _)
GasSum(cs, a, dn, h) ==
    IF cs = <<>> THEN 0
    ELSE (IF Head(cs).fn = "insert_gas_used" /\ Head(cs).args[1] = a
             /\ Head(cs).args[3] = dn /\ Head(cs).args[4] = h
          THEN Head(cs).args[2] ELSE 0) + GasSum(Tail(cs), a, dn, h)

\* C16 (as claimed): gas usage is kept per (address, denomination, block): every
\* triple that was upserted has exactly one row, whose amount is the sum of the
\* amounts upserted for the triple; two denominations of one address and block are
\* two rows.
C16_GasPerAddressDenomBlock ==
    \A a \in Addrs, dn \in Denoms, h \in DbHeights :
        LET rows == {r \in db["gas_used_nyks"] :
                        r.t_address = a /\ r.denom = dn /\ r.block = h}
        IN (\E i \in DOMAIN calls : /\ calls[i].fn = "insert_gas_used"
                                    /\ <<calls[i].args[1], calls[i].args[3], calls[i].args[4]>>
                                          = <<a, dn, h>>)
              => \E r \in rows : rows = {r} /\ r.gas_amount = GasSum(calls, a, dn, h)

\* the (text, block) pairs handed to insert_qq_tx
QqInserted == {<<calls[i].args[1], calls[i].args[2]>> :
                  i \in {j \in DOMAIN calls : calls[j].fn = "insert_qq_tx"}}

\* C17: the raw archive is keyed by (SHA-256 of the serialised text, block): every
\* insert succeeds, the table holds exactly one row for every (text, block) that was
\* inserted, and rows of different texts or different blocks have different keys.
C17_ArchiveKeyedByDigestAndBlock ==
    /\ \A i \in DOMAIN calls : calls[i].fn = "insert_qq_tx" => calls[i].res = "Ok"
    /\ db["qq_tx"] = {[tx_hash |-> Sha256Hex(p[1]), tx |-> p[1], block |-> p[2]] :
                         p \in QqInserted}
    /\ Cardinality({<<r.tx_hash, r.block>> : r \in db["qq_tx"]}) = Cardinality(QqInserted)

\* the same text was archived at two different blocks and is stored twice
C17_Witness ==
    /\ Len(calls) = 2
    /\ calls[1].fn = "insert_qq_tx"
    /\ calls[2].fn = "insert_qq_tx"
    /\ calls[1].args[1] = calls[2].args[1]
    /\ calls[1].args[2] # calls[2].args[2]
    /\ Cardinality(db["qq_tx"]) = 2

(* ---------------------- properties of the stored facts ------------------ *)
\* tables whose upsert adds to an amount, with the column that holds it and the
\* conflict target of the upsert
AccumulateTables == {"funds_moved", "dark_minted_sats", "dark_burned_sats",
                     "lit_minted_sats", "lit_burned_sats", "gas_used_nyks"}
AmountCol(t) == IF t = "gas_used_nyks" THEN "gas_amount" ELSE "amount"
UpsertKey(t) == IF t = "gas_used_nyks" THEN GasConflictTarget ELSE PrimaryKey[t]

\* pubsub_chain.rs:56-59 over a whole block: the databases that processing txs in
\* order on top of d can end with, and whether a panic cut the block short
RECURSIVE IngestBlock(_, _, _)
IngestBlock(d, block, h) ==
    IF block = <<>> THEN {[db |-> d, res |-> "Ok"]}
    ELSE UNION { IF r.res = "Panic" THEN {[db |-> r.db, res |-> "Panic"]}
                 ELSE IngestBlock(r.db, Tail(block), h)
                 : r \in IngestTx(d, Head(block), h) }

\* every transaction of the fetched block was dispatched in a run after a restart
ReplayDone == runs >= 1 /\ pc = "write" /\ last_op = "dispatch"

\* the amount stored in table t of database d under the key of row, 0 if there is none
Stored(d, t, row) ==
    LET hit == {r \in d[t] : Key(r, UpsertKey(t)) = Key(row, UpsertKey(t))}
    IN IF hit = {} THEN 0 ELSE (CHOOSE r \in hit : TRUE)[AmountCol(t)]

\* C13 (as claimed): when block H is processed again after a crash that left some of
\* its facts stored and its cursor write undone, every accumulate-in-place amount ends
\* at twice the amount a single processing stores and every append-only table ends as
\* after a single processing.
C13_ReplayDoublesEveryFact ==
    (ReplayDone /\ runs = 1 /\ db_before_block # EmptyDb) =>
        \A once \in IngestBlock(EmptyDb, chain_txs, fetch_h) :
            /\ \A t \in AccumulateTables :
                  /\ \A r \in once.db[t] : Stored(db, t, r) = 2 * r[AmountCol(t)]
                  /\ \A r \in db[t] : Stored(once.db, t, r) # 0
            /\ \A t \in AppendOnlyTables : db[t] = once.db[t]

\* C13 (amended): when block H is processed again after a restart, all of its
\* transactions are applied in order on top of the rows stored before: an amount
\* already stored grows by the delta of the block again (twice the delta only for a
\* fact that was completely stored before the crash), an amount not yet stored is
\* stored once, and the append-only rows stored before stay as they are, one per key.
C13_ReplayAddsAgain ==
    ReplayDone =>
        /\ db \in {r.db : r \in IngestBlock(db_before_block, chain_txs, fetch_h)}
        /\ \A once \in IngestBlock(EmptyDb, chain_txs, fetch_h) :
              \A t \in AccumulateTables : \A r \in once.db[t] :
                  LET sum == Stored(db_before_block, t, r) + r[AmountCol(t)]
                  IN (sum >= I64Min /\ sum <= I64Max) => Stored(db, t, r) = sum
        /\ \A t \in AppendOnlyTables :
              /\ db_before_block[t] \subseteq db[t]
              /\ \A r1, r2 \in db[t] :
                    Key(r1, NaturalKey[t]) = Key(r2, NaturalKey[t]) => r1 = r2

\* the crash came between the bank send and the mint of a block: after the replay the
\* funds-moved amount is twice the 5 that were sent, the dark-minted amount is the 5
\* that were minted
C13_Witness ==
    /\ ReplayDone
    /\ chain_txs = <<FSend, FMint>>
    /\ db_before_block["funds_moved"] # {}
    /\ db_before_block["dark_minted_sats"] = {}
    /\ \E r \in db["funds_moved"] : r.amount = 10
    /\ \E r \in db["dark_minted_sats"] : r.amount = 5

\* C14 (as claimed): no message ever lowers a stored accumulate-in-place amount: for
\* every message handed to the decoder and every row stored before it, the amount
\* stored under the same key after the message is at least the amount before.
C14_AmountsNeverDecrease ==
    \A i \in DOMAIN trace : \A t \in AccumulateTables : \A r \in trace[i].before[t] :
        Stored(trace[i].after, t, r) >= r[AmountCol(t)]

\* the message of a trace entry is a MsgTransferTx that decodes to a Transfer with an
\* input whose owner is known
IsTransferStep(s) ==
    /\ s.msg.type_url \in {Url(0, "twilightproject.nyks.zkos.MsgTransferTx"),
                           Url(1, "twilightproject.nyks.zkos.MsgTransferTx")}
    /\ s.msg.wire_ok
    /\ s.msg.inner.bytes_ok
    /\ s.msg.inner.variant = "Transfer"
    /\ s.msg.inner.inputs # <<>>
    /\ s.msg.inner.outputs # <<>>
    /\ s.msg.inner.inputs[1].owner # "none"

\* the addresses the owner of the first input is mapped to before the message
OwnerAddrs(s) ==
    {m.t_address : m \in {x \in s.before["addr_mappings"] :
                             x.q_address = s.msg.inner.inputs[1].owner}}

\* C18: type-identifier dispatch: a message whose identifier is a known W or "/" + W
\* is taken by the handler of W; a message with any other identifier (for example one
\* with two leading slashes) gives the Unknown variant with the identifier unchanged
\* and the payload hex-encoded, returns Ok and stores nothing.
C18_TypeDispatch ==
    \A i \in DOMAIN trace :
        LET s == trace[i]
            t == s.msg.type_url
        IN IF \E w \in KnownTypes : t = Url(0, w) \/ t = Url(1, w)
           THEN s.res = "Err" \/ (s.handler \in KnownTypes /\ t \in {Url(0, s.handler),
                                                                   Url(1, s.handler)})
           ELSE /\ s.handler = "Unknown"
                /\ s.res = "Ok"
                /\ s.body = [type_url |-> t, raw_value_hex |-> HexEncode(s.msg.value)]
                /\ s.after = s.before

\* a transaction carried //cosmos.bank.v1beta1.MsgSend with payload 0a ff, an
\* identifier that is not known at all, and cosmos.bank.v1beta1.MsgSend without slash
C18_Witness ==
    /\ Len(trace) = 3
    /\ trace[1].msg.type_url = Url(2, "cosmos.bank.v1beta1.MsgSend")
    /\ trace[1].handler = "Unknown"
    /\ trace[1].body.raw_value_hex = <<"0", "a", "f", "f">>
    /\ trace[2].handler = "Unknown"
    /\ trace[3].msg.type_url = Url(0, "cosmos.bank.v1beta1.MsgSend")
    /\ trace[3].handler = "cosmos.bank.v1beta1.MsgSend"
    /\ trace[3].after # trace[3].before

\* C19 (as claimed): a Transfer whose first input's owner has no address mapping is
\* skipped without error: the message returns Ok, no mapping, transaction-count or
\* trading-tx row is written, and the messages after it are still processed.
C19_UnmappedOwnerSkipped ==
    \A i \in DOMAIN trace :
        LET s == trace[i]
        IN (IsTransferStep(s) /\ OwnerAddrs(s) = {}) =>
              /\ s.res = "Ok"
              /\ \A t \in {"addr_mappings", "transactions", "trading_tx"} :
                    s.after[t] = s.before[t]
              /\ s.rest > 0 => Len(trace) > i

\* the message of a trace entry is a Transfer with one Coin input whose owner is
\* mapped to exactly one address and one Memo output that derives an account
IsCoinToMemoTransfer(s) ==
    /\ IsTransferStep(s)
    /\ Len(s.msg.inner.inputs) = 1
    /\ Len(s.msg.inner.outputs) = 1
    /\ CoinToMemo(s.msg.inner)
    /\ s.msg.inner.outputs[1].account # "err"
    /\ Cardinality(OwnerAddrs(s)) = 1

\* C20 (as claimed): such a Transfer at block N writes the mapping (addr1, qq_new),
\* the transaction-count row (addr1, N) and exactly one trading-tx row, with
\* to = qq_new, from = addr1, block = N.
C20_TradingRowFromAddress ==
    \A i \in DOMAIN trace :
        LET s == trace[i]
            addr1 == CHOOSE a \in OwnerAddrs(s) : TRUE
            qq_new == s.msg.inner.outputs[1].account
            row == [to_address |-> qq_new, from_address |-> addr1, block |-> s.height]
        IN IsCoinToMemoTransfer(s) =>
              /\ [t_address |-> addr1, q_address |-> qq_new, block |-> s.height]
                    \in s.after["addr_mappings"]
              /\ [t_address |-> addr1, block |-> s.height] \in s.after["transactions"]
              /\ row \in s.after["trading_tx"]
              /\ s.after["trading_tx"] \ s.before["trading_tx"] \subseteq {row}

\* C20 (amended): such a Transfer at block N writes the mapping (addr1, qq_new), the
\* transaction-count row (addr1, N) and exactly one trading-tx row, with to = qq_new,
\* from = qq_old (the owner account of the input, not the address it is mapped to),
\* block = N.
C20_TradingRowFromOwner ==
    \A i \in DOMAIN trace :
        LET s == trace[i]
            addr1 == CHOOSE a \in OwnerAddrs(s) : TRUE
            qq_old == s.msg.inner.inputs[1].owner
            qq_new == s.msg.inner.outputs[1].account
            row == [to_address |-> qq_new, from_address |-> qq_old, block |-> s.height]
        IN IsCoinToMemoTransfer(s) =>
              /\ [t_address |-> addr1, q_address |-> qq_new, block |-> s.height]
                    \in s.after["addr_mappings"]
              /\ [t_address |-> addr1, block |-> s.height] \in s.after["transactions"]
              /\ row \in s.after["trading_tx"]
              /\ s.after["trading_tx"] \ s.before["trading_tx"] \subseteq {row}

\* q1 was mapped to a1 by a mint, then a Transfer from the Coin of q1 to a Memo of q2
\* was processed for the first time
C20_Witness ==
    /\ trace # <<>>
    /\ IsCoinToMemoTransfer(trace[1])
    /\ OwnerAddrs(trace[1]) = {"a1"}
    /\ trace[1].before["trading_tx"] = {}
    /\ trace[1].after["trading_tx"] =
          {[to_address |-> "q2", from_address |-> "q1", block |-> 1]}
    /\ [t_address |-> "a1", q_address |-> "q2", block |-> 1] \in trace[1].after["addr_mappings"]
    /\ [t_address |-> "a1", block |-> 1] \in trace[1].after["transactions"]


(* ------------------------- disassembler claims --------------------------- *)
\* C29: disassembly cursor safety.  For every program (empty, truncated, or with a
\* declared blob length larger than the bytes that remain) decode_program_opcodes
\* reads only indices below the buffer length, every loop iteration emits one
\* instruction and moves the cursor forward by at least one byte, so the loop ends
\* after at most as many iterations as the buffer has bytes, and the list it
\* returns is at most as long as the buffer.
C29_CursorSafety ==
    [][ /\ disasm'.reads \subseteq 0 .. (Len(disasm'.bytes) - 1)
        /\ Len(disasm'.opcodes) <= Len(disasm'.bytes)
        /\ disasm.pc = "loop" /\ disasm.i < Len(disasm.bytes)
              => /\ disasm'.i > disasm.i
                 /\ Len(disasm'.opcodes) = Len(disasm.opcodes) + 1
        /\ disasm'.pc = "returned" => disasm'.i >= Len(disasm'.bytes) ]_vars

\* a call has returned on a buffer whose first opcode declares a blob longer than the
\* bytes that remain: the cursor has moved beyond the end of the buffer
C29_Witness ==
    /\ disasm.pc = "returned"
    /\ Len(disasm.bytes) >= 5
    /\ disasm.bytes[1] = 0
    /\ disasm.i > Len(disasm.bytes)
    /\ Len(disasm.opcodes) = 1

\* C30: when an opcode that carries a 4-byte argument is followed by fewer than four
\* bytes, disassembly stops: the instruction of that opcode is the last one emitted,
\* none is emitted for the trailing bytes.
C30_TruncatedArgumentStops ==
    disasm.short # 0 => Len(disasm.opcodes) = disasm.short

\* the opcode bytes of the table of api.rs:206-312
KnownOps == {0, 1, 2, 3, 4, 5, 6, 7} \cup (10 .. 23) \cup (25 .. 35)

\* C31: the blob of a blob-carrying opcode (0x00 push, 0x01 program) is skipped and
\* never interpreted.  When such an opcode at offset i is followed by at least four
\* bytes that declare the length L, the iteration emits one instruction, reads no
\* byte of the blob, and leaves the cursor at i + 1 + 4 + L, where the next opcode
\* byte is taken; an opcode byte that is not in the table moves the cursor by
\* exactly one byte and emits one placeholder carrying that byte.
C31_BlobSkippedUnknownAdvancesOne ==
    [][ (disasm.pc = "loop" /\ disasm.i < Len(disasm.bytes)) =>
          LET b == disasm.bytes
              i == disasm.i
              op == b[i + 1]
          IN /\ (op \in {0, 1} /\ Len(b) - (i + 1) >= 4) =>
                   LET L == b[i + 2] + 256 * b[i + 3] + 65536 * b[i + 4]
                            + 16777216 * b[i + 5]
                   IN /\ disasm'.i = i + 1 + 4 + L
                      /\ Len(disasm'.opcodes) = Len(disasm.opcodes) + 1
                      /\ Last(disasm'.opcodes) =
                            [name |-> IF op = 0 THEN "push" ELSE "program",
                             has_arg |-> TRUE, arg |-> L]
                      /\ disasm'.reads = disasm.reads \cup (i .. (i + 4))
             /\ op \notin KnownOps =>
                   /\ disasm'.i = i + 1
                   /\ disasm'.opcodes =
                         Append(disasm.opcodes,
                                [name |-> "ext", has_arg |-> TRUE, arg |-> op]) ]_vars

\* a call has returned on the buffer 00 02000000 03 03 08: the two blob bytes, which
\* are opcodes that take an argument, were not read, and the byte after the blob was
\* decoded as an unknown opcode
C31_Witness ==
    /\ disasm.pc = "returned"
    /\ disasm.bytes = <<0, 2, 0, 0, 0, 3, 3, 8>>
    /\ disasm.opcodes = << [name |-> "push", has_arg |-> TRUE, arg |-> 2],
                           [name |-> "ext", has_arg |-> TRUE, arg |-> 8] >>
    /\ disasm.reads = {0, 1, 2, 3, 4, 7}

(* ---------------- claims on the confidential-transaction arms ------------ *)
\* the message of a step is a MsgTransferTx whose inner transaction decodes as the
\* given variant
IsConfStep(s, variant) ==
    /\ s.msg.type_url \in {Url(0, "twilightproject.nyks.zkos.MsgTransferTx"),
                           Url(1, "twilightproject.nyks.zkos.MsgTransferTx")}
    /\ s.msg.wire_ok
    /\ s.msg.inner.bytes_ok
    /\ s.msg.inner.variant = variant

\* the inner transaction has a first input with an owner address and a first output
HasOwnerAndOutput(s) ==
    /\ s.msg.inner.inputs # <<>>
    /\ s.msg.inner.outputs # <<>>
    /\ s.msg.inner.inputs[1].owner # "none"

\* the row a trading-tx / order-open / order-close insert of the step would store
TransitionRow(s) ==
    [to_address |-> s.msg.inner.outputs[1].account,
     from_address |-> s.msg.inner.inputs[1].owner,
     block |-> AsI64(s.height)]

\* (kind of first input, kind of first output)
Kinds(s) == <<s.msg.inner.inputs[1].in_type, s.msg.inner.outputs[1].out_type>>

\* the tables named are the same before and after the step
Untouched(s, tables) == \A t \in tables : s.after[t] = s.before[t]

\* C21: Script classification by (kind of first input, kind of first output), for a
\* Script transaction with an owner address and a derivable first output, processed
\* while the database is reachable: Coin -> Memo stores the order-open row (to = new
\* account, from = owner, block) and nothing in order-close or trading-tx;
\* Memo -> Coin stores the order-close row and nothing in order-open or trading-tx;
\* every other combination leaves all three tables unchanged.
C21_ScriptClassification ==
    \A k \in DOMAIN trace :
        LET s == trace[k]
        IN (IsConfStep(s, "Script") /\ HasOwnerAndOutput(s)
              /\ s.msg.inner.outputs[1].account # "err" /\ s.up) =>
             /\ s.res = "Ok"
             /\ CASE Kinds(s) = <<"Coin", "Memo">> ->
                       /\ s.after["order_open_tx"] = s.before["order_open_tx"] \cup {TransitionRow(s)}
                       /\ Untouched(s, {"order_close_tx", "trading_tx"})
                  [] Kinds(s) = <<"Memo", "Coin">> ->
                       /\ s.after["order_close_tx"] = s.before["order_close_tx"] \cup {TransitionRow(s)}
                       /\ Untouched(s, {"order_open_tx", "trading_tx"})
                  [] OTHER -> Untouched(s, {"order_open_tx", "order_close_tx", "trading_tx"})

\* the four Script messages of one transaction were processed: the first stored a new
\* order-open row, the second a new order-close row, the last two nothing
C21_Witness ==
    /\ Len(trace) = 4
    /\ \A k \in 1..4 : IsConfStep(trace[k], "Script") /\ trace[k].up
    /\ Kinds(trace[1]) = <<"Coin", "Memo">>
    /\ TransitionRow(trace[1]) \in trace[1].after["order_open_tx"] \ trace[1].before["order_open_tx"]
    /\ Kinds(trace[2]) = <<"Memo", "Coin">>
    /\ TransitionRow(trace[2]) \in trace[2].after["order_close_tx"] \ trace[2].before["order_close_tx"]
    /\ Kinds(trace[3]) = <<"Coin", "Coin">>
    /\ Kinds(trace[4]) = <<"Memo", "Memo">>
    /\ trace[4].after["order_open_tx"] = trace[1].after["order_open_tx"]

\* C22: the Script variant resolves the owner like the Transfer variant: when the
\* zk-account owning the first input is in no address mapping, the message stores no
\* order-open and no order-close row.
C22_ScriptUnmappedOwnerSkipped ==
    \A k \in DOMAIN trace :
        LET s == trace[k]
        IN (IsConfStep(s, "Script") /\ HasOwnerAndOutput(s) /\ OwnerAddrs(s) = {}) =>
              Untouched(s, {"order_open_tx", "order_close_tx"})

\* C23: a Message-variant inner transaction stores nothing: every table, the raw
\* transaction archive included, is the same after the message as before it.
C23_MessageVariantStoresNothing ==
    \A k \in DOMAIN trace :
        IsConfStep(trace[k], "Message") => trace[k].after = trace[k].before

\* C24: confidential transactions are logged by the transition of asset kind: with a
\* mapped owner, a derivable output and a reachable database, Coin -> Memo stores the
\* order-open row, Memo -> Coin the order-close row, and Coin -> Coin the trading-tx
\* row.
C24_LoggedByKindTransition ==
    \A k \in DOMAIN trace :
        LET s == trace[k]
        IN ((IsConfStep(s, "Transfer") \/ IsConfStep(s, "Script")) /\ HasOwnerAndOutput(s)
              /\ s.msg.inner.outputs[1].account # "err" /\ OwnerAddrs(s) # {} /\ s.up) =>
             /\ Kinds(s) = <<"Coin", "Memo">> => TransitionRow(s) \in s.after["order_open_tx"]
             /\ Kinds(s) = <<"Memo", "Coin">> => TransitionRow(s) \in s.after["order_close_tx"]
             /\ Kinds(s) = <<"Coin", "Coin">> => TransitionRow(s) \in s.after["trading_tx"]

\* the message of a step is a MsgMintBurnTradingBtc that decodes
IsMintBurnStep(s) ==
    /\ s.msg.type_url \in {Url(0, "twilightproject.nyks.zkos.MsgMintBurnTradingBtc"),
                           Url(1, "twilightproject.nyks.zkos.MsgMintBurnTradingBtc")}
    /\ s.msg.wire_ok

\* the amount stored for an address in a table keyed by address, 0 without a row
AmountOf(d, t, a) ==
    LET rs == {r \in d[t] : r.t_address = a}
    IN IF rs = {} THEN 0 ELSE (CHOOSE r \in rs : TRUE).amount

\* table t of the step changed as one accumulation of the message's amount for its
\* address: the rows of other addresses are unchanged and the address holds the old
\* amount plus the delta, or the old amount when the upsert failed (database
\* unreachable, or sum outside the bigint range)
AccumulatedOnce(s, t) ==
    LET a == s.msg.twilight_address
        old == AmountOf(s.before, t, a)
        sum == old + AsI64(s.msg.amount)
    IN /\ {r \in s.after[t] : r.t_address # a} = {r \in s.before[t] : r.t_address # a}
       /\ AmountOf(s.after, t, a)
            = IF s.up /\ sum >= I64Min /\ sum <= I64Max THEN sum ELSE old

\* C25: mint/burn message.  Mint: one dark-minted accumulation for the address and
\* the mapping (address, zk-account) inserted, dark-burned untouched.  Burn: one
\* dark-burned accumulation, mappings and dark-minted untouched.  In both cases the
\* transaction-count row (address, block) is inserted, also when the amount upsert
\* failed, and the message returns Ok.  (Inserts store a row only while the
\* database is reachable.)
C25_MintBurnFacts ==
    \A k \in DOMAIN trace :
        LET s == trace[k]
            a == s.msg.twilight_address
        IN IsMintBurnStep(s) =>
             /\ s.res = "Ok"
             /\ IF s.msg.mint_or_burn
                THEN /\ AccumulatedOnce(s, "dark_minted_sats")
                     /\ Untouched(s, {"dark_burned_sats"})
                     /\ s.up => \E m \in s.after["addr_mappings"] :
                                    m.t_address = a /\ m.q_address = s.msg.qq_account
                ELSE /\ AccumulatedOnce(s, "dark_burned_sats")
                     /\ Untouched(s, {"dark_minted_sats", "addr_mappings"})
             /\ s.up => [t_address |-> a, block |-> AsI64(s.height)] \in s.after["transactions"]
             /\ Untouched(s, {"funds_moved", "lit_minted_sats", "lit_burned_sats",
                              "gas_used_nyks", "qq_tx", "trading_tx", "order_open_tx",
                              "order_close_tx"})

\* a mint whose amount upsert failed (the sum left the bigint range) while the database
\* was reachable: the dark-minted amount stayed, the mapping and the
\* transaction-count row of the message were stored as new rows
C25_Witness ==
    \E k \in DOMAIN trace :
        LET s == trace[k]
        IN /\ IsMintBurnStep(s) /\ s.msg.mint_or_burn /\ s.up
           /\ AmountOf(s.before, "dark_minted_sats", "a1") = 5
           /\ AmountOf(s.after, "dark_minted_sats", "a1") = 5
           /\ s.msg.amount = I64Max
           /\ s.after["addr_mappings"] # s.before["addr_mappings"]
           /\ s.after["transactions"] # s.before["transactions"]

\* C26: a failing storage operation aborts nothing: while the database is unreachable
\* (every storage call of the dispatch fails, the archive insert and the mapping
\* lookup included) every message of the transaction is still processed and returns
\* Ok.
C26_StorageFailureAbortsNothing ==
    (calls # <<>> /\ Last(calls).fn = "decode_tx_base64_standard" /\ trace # <<>>
       /\ ~trace[1].up) =>
        /\ Len(trace) = Len(Last(calls).args[1].msgs)
        /\ \A k \in DOMAIN trace : trace[k].res = "Ok"

\* C27: a derivation failure on the first output of a confidential transaction
\* (Transfer or Script) fails that message only: the decoder does not panic, and the
\* message stores no mapping, transaction-count, trading-tx or order row.
C27_DerivationFailureIsLocal ==
    \A k \in DOMAIN trace :
        LET s == trace[k]
        IN ((IsConfStep(s, "Transfer") \/ IsConfStep(s, "Script")) /\ HasOwnerAndOutput(s)
              /\ s.msg.inner.outputs[1].account = "err") =>
             /\ s.res # "Panic"
             /\ Untouched(s, {"addr_mappings", "transactions", "trading_tx",
                              "order_open_tx", "order_close_tx"})

(* ----------------------- ordering of mapping lookups --------------------- *)
\* m is a mint message that maps the zk-account q
IsMintOf(m, q) ==
    /\ ty(m.type_url, "twilightproject.nyks.zkos.MsgMintBurnTradingBtc")
    /\ m.wire_ok
    /\ m.mint_or_burn
    /\ m.qq_account = q

\* in the block of the chain a mint of q stands before message j of transaction k
MintBefore(k, j, q) ==
    \/ \E k2 \in 1..(k - 1) : \E j2 \in DOMAIN chain_txs[k2].msgs :
          IsMintOf(chain_txs[k2].msgs[j2], q)
    \/ \E j2 \in 1..(j - 1) : IsMintOf(chain_txs[k].msgs[j2], q)

\* a Transfer step whose first output derives an account
IsDerivingTransfer(s) == IsTransferStep(s) /\ s.msg.inner.outputs[1].account # "err"

\* the step stored the facts of a Transfer for one of the addresses its owner is
\* mapped to: the mapping to the new account and the transaction-count row
TransferFactsStored(s) ==
    \E a \in OwnerAddrs(s) :
        /\ \E m \in s.after["addr_mappings"] :
              m.t_address = a /\ m.q_address = s.msg.inner.outputs[1].account
        /\ [t_address |-> a, block |-> AsI64(s.height)] \in s.after["transactions"]

\* the state directly after a transaction was handed to the decoder: trace is the
\* trace of transaction number Len(dispatched) of the block
JustDispatched == last_op = "dispatch" /\ dispatched # <<>>

C32_SingleWriter ==
    [][ /\ db' # db => DispatchTxFacts
        /\ local_block_height' # local_block_height => (WriteHeight \/ WriteHeightIdle)
        /\ response' # response => /\ db' = db
                                   /\ local_block_height' = local_block_height
                                   /\ gas_triple_unique' = gas_triple_unique ]_vars

\* while the indexer is between the two transactions of a block, with the facts of
\* the first one stored, the API has decoded a Transfer on request and the archive
\* is still empty
C32_Witness ==
    /\ api = "serving"
    /\ pc = "dispatch"
    /\ tx_i = 2
    /\ db["funds_moved"] # {}
    /\ response.route = "decode-zkos-transaction"
    /\ response.status = 200
    /\ response.tx_type = "Transfer"
    /\ db["qq_tx"] = {}

(* ------------------------- address-mapping claim ------------------------- *)
\* the calls of insert_addr_mappings made so far for the pair (a, q), in order
MappingCalls(a, q) ==
    SelectSeq(calls, LAMBDA c : c.fn = "insert_addr_mappings"
                                /\ c.args[1] = a /\ c.args[2] = q)

\* C33: address mappings are insert-if-absent and never updated.  After any sequence
\* of gateway calls the mapping table holds, for every pair (address, zk-account)
\* that insert_addr_mappings was called with, exactly one row, and its block is the
\* height of the first call for that pair, whatever the heights of the later calls;
\* it holds no other row, so an address has as many rows as distinct zk-accounts
\* were inserted for it.
C33_MappingsInsertIfAbsent ==
    db["addr_mappings"] =
        {[t_address |-> a, q_address |-> q, block |-> MappingCalls(a, q)[1].args[3]] :
            <<a, q>> \in {<<c, k>> \in Addrs \X QAddrs : MappingCalls(c, k) # <<>>}}

\* one address was mapped to two zk-accounts, at different heights, and holds a row
\* for each
C33_Witness ==
    /\ Len(calls) = 2
    /\ calls[1].fn = "insert_addr_mappings"
    /\ calls[2].fn = "insert_addr_mappings"
    /\ calls[1].args[1] = "a1"
    /\ calls[2].args[1] = "a1"
    /\ calls[1].args[3] # calls[2].args[3]
    /\ {r.q_address : r \in {m \in db["addr_mappings"] : m.t_address = "a1"}} = {"q1", "q2"}

(* ------------------------ claims on the loop control --------------------- *)
\* C34: at every block fetch made by the loop the persisted cursor equals the height
\* being fetched, and it stays so while the transactions of that height are handed
\* to the decoder; a process that is terminated during the processing of height H
\* therefore leaves the cursor at H, and the next run starts its catch-up at the
\* persisted value, that is at exactly H.
C34_CursorIsFetchHeight ==
    [][ /\ (pc = "while" /\ pc' \in {"dispatch", "write"})
              => /\ local_block_height = block_height
                 /\ fetch_h' = local_block_height
        /\ pc = "dispatch" => local_block_height = fetch_h
        /\ (pc = "dispatch" /\ pc' = "down") => local_block_height' = fetch_h
        /\ (pc = "start" /\ pc' = "while") => block_height' = local_block_height ]_vars

\* after a restart the loop is handing the block of height 1 to the decoder: the
\* cursor, 0 when the first run began, holds 1, and one fetch of this run has failed
\* without advancing the height
C34_Witness ==
    /\ runs = 1
    /\ pc = "dispatch"
    /\ fetch_h = 1
    /\ local_block_height = 1
    /\ cursor0 = 0
    /\ attempt = 1

\* C35: the loop never fetches a block at a height greater than the remote head it
\* obtained last: every fetch is for a height h with h <= latest_height, and
\* latest_height is a head the chain has had.  When the catch-up loop is left after
\* at least one iteration the in-memory height is exactly latest_height + 1; when it
\* is left without an iteration the height was above the head when the round began.
C35_NeverBeyondHead ==
    [][ /\ (pc = "while" /\ pc' \in {"dispatch", "write"})
              => /\ block_height <= latest_height
                 /\ fetch_h' = block_height
                 /\ latest_height <= chain_head
        /\ (pc = "while" /\ pc' = IdleOrder[1])
              => /\ block_height > latest_height
                 /\ last_op = "write" => block_height = latest_height + 1 ]_vars

\* the loop caught up from height 0 to the head 1 and has left the catch-up loop
\* with the height 2
C35_Witness ==
    /\ last_op = "exit"
    /\ cursor0 = 0
    /\ runs = 0
    /\ latest_height = 1
    /\ block_height = 2
    /\ completed = {0, 1}

\* the thread has left the catch-up loop with a height above the remote head
InIdleWait ==
    /\ pc \in {"requery", "write_idle", "sleep"}
    /\ block_height > latest_height

\* C36: catch-up terminates.  With the remote head fixed and every call returning,
\* whatever the fetches return, no more than 3 failed fetches in a row are made at
\* one height, and a thread that has entered the catch-up loop eventually leaves it
\* with a height above the remote head and enters the idle wait.
C36_CatchUpTerminates ==
    /\ [](streak <= MaxAttempts)
    /\ (pc = "while") ~> InIdleWait

(* ----------------------- claims on whole transactions -------------------- *)
\* the transaction of the last call of decode_tx_base64_standard, and its height
LastTx == Last(calls).args[1]
LastHeight == Last(calls).args[2]

\* C37: if the envelope of a transaction fails to decode at any stage (base64, TxRaw,
\* TxBody or AuthInfo), the call returns an error, no message of the transaction is
\* handed to decode_standard_any, and the database is as it was before the call: no
\* fact of any type, and no gas usage, is stored for that transaction.
C37_EnvelopeFailureStoresNothing ==
    (calls # <<>> /\ LastTx.envelope # "ok") =>
        /\ Last(calls).res = "Err"
        /\ trace = <<>>
        /\ db = db_before_block

\* after a mint had stored its rows, a transaction whose AuthInfo does not decode,
\* and whose body holds a bank send and a fee, was processed with the database
\* reachable and left the database as it was
C37_Witness ==
    /\ Len(calls) = 2
    /\ calls[1].args[1] = FMint
    /\ calls[2].args[1].envelope = "auth"
    /\ calls[2].args[1].msgs # <<>>
    /\ calls[2].args[1].fee # <<>>
    /\ db_up
    /\ db["dark_minted_sats"] # {}
    /\ db["funds_moved"] = {}

\* the gas rows that the last call stored or changed
GasWritten == db["gas_used_nyks"] \ db_before_block["gas_used_nyks"]

\* C38: partial effects inside one transaction.  The messages of a transaction are
\* handed to decode_standard_any in order, each on the database the one before it
\* left, and what they stored is never taken back.  When message k does not decode,
\* no message after k is dispatched and the database stays as message k left it: the
\* facts of the messages before k are persisted and no gas-usage record is written.
\* A gas-usage upsert is made at most once per transaction, only when every message
\* returned Ok, for the signer named by the first message at the height of the block.
C38_PartialEffectsNoGas ==
    (calls # <<>> /\ LastTx.envelope = "ok") =>
        /\ Len(trace) <= Len(LastTx.msgs)
        /\ \A j \in DOMAIN trace :
              /\ trace[j].msg = LastTx.msgs[j]
              /\ trace[j].before = IF j = 1 THEN db_before_block ELSE trace[j - 1].after
              /\ j < Len(trace) => trace[j].res = "Ok"
        /\ Last(calls).res # "Ok" =>
              /\ trace # <<>>
              /\ Last(trace).res = Last(calls).res
              /\ db = Last(trace).after
              /\ GasWritten = {}
        /\ Last(calls).res = "Ok" =>
              /\ Len(trace) = Len(LastTx.msgs)
              /\ \A t \in TableNames \ {"gas_used_nyks"} :
                    db[t] = (IF trace = <<>> THEN db_before_block ELSE Last(trace).after)[t]
              /\ Cardinality(GasWritten) <= 1
              /\ \A g \in GasWritten :
                    /\ LastTx.fee # <<>>
                    /\ g.t_address = extract_signer_from_any(LastTx.msgs[1])
                    /\ g.block = LastHeight

\* the second of three messages did not decode: the funds the first one moved are
\* stored, the third was not dispatched, and although the transaction carries a fee
\* and the gas table accepts upserts, no gas row was written
C38_Witness ==
    /\ Len(calls) = 1
    /\ LastTx = XSendBadVoteSend
    /\ Last(calls).res = "Err"
    /\ Len(trace) = 2
    /\ gas_triple_unique
    /\ db_up
    /\ db["funds_moved"] = {[t_address |-> "a2", amount |-> 5, denom |-> "nyks",
                             block |-> LastHeight]}
    /\ db["gas_used_nyks"] = {}

(* ------------------------ transaction-count claim ------------------------ *)
\* the message of a step is a bank send that decodes
IsSendStep(s) ==
    /\ s.msg.type_url \in {Url(0, "cosmos.bank.v1beta1.MsgSend"),
                           Url(1, "cosmos.bank.v1beta1.MsgSend")}
    /\ s.msg.wire_ok

\* the transactions table after the step is the one before it plus the row of
\* address a at the height of the step
CountsAddress(s, a) ==
    s.after["transactions"] =
        s.before["transactions"] \cup {[t_address |-> a, block |-> s.height]}

\* the step counted the address its message names, once for the block: the sender of
\* a bank send, the address of a mint or burn, one of the addresses the owner of a
\* Transfer is mapped to; any other step, and any step made while the database is
\* unreachable, leaves the table as it was
StepCounts(s) ==
    IF ~s.up THEN s.after["transactions"] = s.before["transactions"]
    ELSE IF IsSendStep(s) THEN CountsAddress(s, s.msg.from_address)
    ELSE IF IsMintBurnStep(s) THEN CountsAddress(s, s.msg.twilight_address)
    ELSE IF IsConfStep(s, "Transfer") /\ IsDerivingTransfer(s) /\ OwnerAddrs(s) # {}
    THEN \E a \in OwnerAddrs(s) : CountsAddress(s, a)
    ELSE s.after["transactions"] = s.before["transactions"]

\* the blocks in which address a is counted in the table tr
BlocksCounted(tr, a) == {r.block : r \in {x \in tr : x.t_address = a}}

====
